---------------------------- MODULE Spec2Model ----------------------------
(***************************************************************************)
(* Model of src/Lab4_Shaders/src/shaders.rs: the vertex pipeline, the      *)
(* noise generator, the lighting term, the five procedural colour          *)
(* functions, the fragment shader and the two overlay orchestrators        *)
(* (render_rings, render_moon).                                            *)
(*                                                                         *)
(* f32 values are fixed-point integers in thousandths (One = 1.0).  An     *)
(* f32 NaN is the value NaN.  libm's sin, cos and atan2 are fixed-point    *)
(* approximations (error <= 0.003) that are exact at the quarter turns.    *)
(***************************************************************************)
EXTENDS Integers, Sequences, FiniteSets, TLC

VARIABLES
    call,                   \* the top-level call in progress or just returned
    pc,                     \* position inside render_rings / render_moon
    overlay_uniforms,       \* ring_uniforms / moon_uniforms (the local copy)
    transformed_vertices,   \* Vec<Vertex> built by the first loop
    triangles,              \* Vec<[Vertex; 3]> built by the second loop
    fragments,              \* Vec<Fragment> built by the third loop
    next_index,             \* index of the loop in progress
    framebuffer,            \* the point writes received by the Framebuffer
    uniforms,               \* the caller's Uniforms value
    log                     \* calls made to collaborators, in order

vars == <<call, pc, overlay_uniforms, transformed_vertices, triangles,
          fragments, next_index, framebuffer, uniforms, log>>

----------------------------------------------------------------------------
(* Evaluation order *)

\* `let v = value; In(v)`: value is computed once and then used by name
Let(value, In(_)) == CHOOSE r \in {In(v) : v \in {value}} : TRUE

\* F(a, b) with both arguments computed first
Strict2(F(_, _), a, b) == CHOOSE r \in {F(x, y) : x \in {a}, y \in {b}} : TRUE

----------------------------------------------------------------------------
(* f32 arithmetic in thousandths *)

One == 1000
NaN == -2000000000

Abs(a) == IF a < 0 THEN -a ELSE a
Sign(a) == IF a < 0 THEN -1 ELSE 1
Min(a, b) == IF a < b THEN a ELSE b
Max(a, b) == IF a > b THEN a ELSE b

\* n / d rounded to the nearest integer, d > 0
RDiv(n, d) ==
    Strict2(LAMBDA x, y : Sign(x) * ((2 * Abs(x) + y) \div (2 * y)), n, d)

\* a * b, rounded to the nearest thousandth; the larger factor is split so
\* that no intermediate product leaves the 32-bit range
Mul(a, b) ==
    Strict2(LAMBDA big, small :
                (big \div One) * small + RDiv((big % One) * small, One),
            Max(Abs(a), Abs(b)), Min(Abs(a), Abs(b)))
    * Sign(a) * Sign(b)

\* a / b for b # 0
Div(a, b) == Strict2(LAMBDA x, y : Sign(y) * RDiv(x * One, Abs(y)), a, b)

\* f32 `/`: 0/0 and anything with NaN is NaN
FDiv(a, b) ==
    Strict2(LAMBDA x, y :
                IF x = NaN \/ y = NaN THEN NaN
                ELSE IF y = 0 THEN NaN
                ELSE Div(x, y),
            a, b)

\* f32::max / f32::min
FMax(a, b) == Strict2(LAMBDA x, y : IF x > y THEN x ELSE y, a, b)
FMin(a, b) == Strict2(LAMBDA x, y : IF x < y THEN x ELSE y, a, b)

\* `as i32`: truncation toward zero
AsI32(a) == Let(a, LAMBDA x : Sign(x) * (Abs(x) \div One))

RECURSIVE SqrtSearch(_, _, _)
SqrtSearch(n, lo, hi) ==
    IF lo >= hi THEN lo
    ELSE Let((lo + hi + 1) \div 2, LAMBDA mid :
            IF mid * mid <= n THEN SqrtSearch(n, mid, hi)
            ELSE SqrtSearch(n, lo, mid - 1))

\* floor of the square root of n >= 0
ISqrt(n) == Let(n, LAMBDA x : SqrtSearch(x, 0, Min(x, 46340)))

Vec3(x, y, z) == [x |-> x, y |-> y, z |-> z]
Vec4(x, y, z, w) == [x |-> x, y |-> y, z |-> z, w |-> w]

\* (x*x + y*y + z*z).sqrt()
Length3(vec) == Let(vec, LAMBDA v : ISqrt(v.x * v.x + v.y * v.y + v.z * v.z))

\* Vector3::new(v.x * k, v.y * k, v.z * k)
Scale3(vec, factor) ==
    Strict2(LAMBDA v, k : Vec3(Mul(v.x, k), Mul(v.y, k), Mul(v.z, k)),
            vec, factor)

\* Vector3::new(v.x / d, v.y / d, v.z / d)
Divide3(vec, divisor) ==
    Strict2(LAMBDA v, d : Vec3(Div(v.x, d), Div(v.y, d), Div(v.z, d)),
            vec, divisor)

\* Vector3::new(a.x + b.x, a.y + b.y, a.z + b.z)
Add3(a, b) ==
    Strict2(LAMBDA v, w : Vec3(v.x + w.x, v.y + w.y, v.z + w.z), a, b)

\* a.x * b.x + a.y * b.y + a.z * b.z
Dot3(a, b) ==
    Strict2(LAMBDA v, w : Mul(v.x, w.x) + Mul(v.y, w.y) + Mul(v.z, w.z), a, b)

Pi == 3142
HalfPi == 1571
TwoPi == 6283

\* sin on [0, pi/2], Taylor polynomial of degree 9 in Horner form
SinQuarter(r) ==
    Let(RDiv(r * r, 100), LAMBDA r2 :
    Let(10000 - RDiv(r2, 72), LAMBDA t1 :
    Let(10000 - RDiv(RDiv(r2 * t1, 10000), 42), LAMBDA t2 :
    Let(10000 - RDiv(RDiv(r2 * t2, 10000), 20), LAMBDA t3 :
    Let(10000 - RDiv(RDiv(r2 * t3, 10000), 6), LAMBDA t4 :
        RDiv(r * t4, 10000))))))

SinHalf(r) == IF r > HalfPi THEN SinQuarter(Pi - r) ELSE SinQuarter(r)

\* f32::sin
Sin(a) ==
    Let(a % TwoPi, LAMBDA r : IF r > Pi THEN -SinHalf(r - Pi) ELSE SinHalf(r))

\* f32::cos
Cos(a) == Sin(a + HalfPi)

\* atan2 of a point other than the origin
Atan2Octant(y, x) ==
    Let(RDiv(Min(Abs(x), Abs(y)) * One, Max(Abs(x), Abs(y))), LAMBDA a :
    Let(Mul(a, 785 + Mul(One - a, 245 + Mul(66, a))), LAMBDA r0 :
    Let(IF Abs(y) > Abs(x) THEN HalfPi - r0 ELSE r0, LAMBDA r1 :
    Let(IF x < 0 THEN Pi - r1 ELSE r1, LAMBDA r2 :
        IF y < 0 THEN -r2 ELSE r2))))

\* f32::atan2
Atan2(y, x) ==
    Strict2(LAMBDA b, a : IF a = 0 /\ b = 0 THEN 0 ELSE Atan2Octant(b, a), y, x)

----------------------------------------------------------------------------
(* Noise generator *)

\* ((n * n * 41597.5453).sin() * 43758.5453) % 1.0 evaluated in f32 for
\* n = 0 .. 9000, in thousandths (truncated); n * n makes it even in n.
NoiseTable == <<
    0, 937, -89, 82, 769, 984, 333, 675, 361, -261, -901, 767, -195, -413, 703, 541, 
    -300, -309, 865, 203, 156, -511, 785, -593, 390, 410, -992, -765, -988, -101, -851, -54, 
    199, -335, 894, -296, -929, -5, 213, 160, 394, -761, -503, -593, -417, -457, 634, 243, 
    841, 593, -269, 256, 212, 253, -316, 81, 108, 953, -925, -617, -601, -658, -19, -64, 
    -158, -218, -314, 687, -406, 267, 910, 974, 761, -871, -140, -562, 425, 525, -58, -900, 
    -64, 337, 792, 373, 809, 792, -187, -875, 953, -7, -931, -89, 351, 324, 291, -232, 
    -371, -783, 733, 496, 603, -410, -421, -101, 785, -618, 733, 337, 507, 855, -732, 972, 
    757, -609, 11, 117, -126, 359, 582, 688, 251, -876, 316, -74, -209, -31, 324, 335, 
    193, -72, -828, -792, 378, 875, 660, -558, 156, 661, -562, -484, -929, 886, -613, -923, 
    867, -960, -306, 597, -636, -50, 962, -31, -621, -97, 627, 56, -539, 609, 713, 339, 
    -285, -277, -125, 203, -621, 656, -56, 503, -246, -417, -54, -250, 482, -382, -191, 23, 
    207, -675, 945, -914, -628, 58, -345, -773, 167, -136, -184, -542, 531, 113, 710, -359, 
    -89, 970, 332, 117, 421, -227, -541, -488, 353, -908, 320, -787, 490, 44, -106, 730, 
    890, -738, 777, 734, -101, 351, 488, -498, 298, -968, 552, -414, -712, -184, -902, 263, 
    -62, 752, -98, 269, 664, 988, -11, 904, -908, 771, 811, 992, 582, -175, 320, 996, 
    -220, 933, 880, 3, -824, 394, -296, -386, -62, -502, -523, -357, 207, -199, 781, -490, 
    562, -117, 835, 119, -884, 140, 726, -539, 150, 966, 798, 395, 929, 847, -121, -396, 
    592, -421, 373, 476, 259, -822, -496, 361, 462, 566, 183, 113, 716, -46, 550, -417, 
    -650, -570, 773, -346, 879, 981, 363, 574, 687, -62, -167, 320, -894, 886, 689, -175, 
    384, -569, -894, 68, 289, -734, 130, 82, 42, -222, 35, 687, -316, -604, 500, -836, 
    113, 500, 15, -274, 536, -297, 337, -359, -335, 39, 576, 238, -300, 464, 27, 269, 
    -492, 718, -169, -555, 703, 453, -917, 357, 767, 625, 597, 707, -292, 628, -304, -763, 
    -949, 634, -890, 882, 93, 392, 7, -476, 242, 746, 319, 261, 808, 255, -593, -628, 
    -363, 517, 742, 859, -21, 611, 320, 31, 324, -914, -994, -953, 292, -843, 624, 194, 
    -900, -327, -427, -769, -614, 58, 179, 765, -251, 74, 150, 228, -570, 851, -730, 156, 
    171, -946, 873, -898, -351, 320, -597, 472, 237, -453, -458, 712, -644, 70, -966, -70, 
    -11, -105, 462, -310, -132, -136, -109, 421, -433, 313, -805, -364, 996, -988, -343, 250, 
    -812, -300, 677, -680, 539, 367, -691, -518, 542, -423, 840, 527, 513, -129, 888, 890, 
    103, 597, -810, 789, 541, 423, -769, -136, 775, 738, -118, -750, -328, -804, -210, -703, 
    757, 742, -392, -207, 425, -957, 324, -626, -998, 929, 455, -382, -695, -246, -527, -492, 
    -601, -470, 148, 582, -472, 511, -675, 238, -402, 414, 540, -605, -494, 509, 25, 742, 
    878, -563, -968, -628, 433, 917, -863, 144, -558, 748, 114, -878, -956, 394, 355, 9, 
    339, 968, 851, 218, -326, -718, 933, -564, 78, -600, 425, -593, 105, 23, -922, -945, 
    -757, -742, -773, -128, -511, 976, 608, -195, 398, -527, 156, -78, 66, -294, -218, -935, 
    464, 132, 125, 246, 212, -673, -566, 602, 402, -78, 210, -492, 949, -457, -40, 89, 
    800, -21, -78, -54, -128, -779, 93, 660, -181, -921, 113, -945, 886, -445, 683, 839, 
    -746, -420, 357, 839, 70, 988, 861, -979, -105, -717, 406, -835, 982, -535, 722, -921, 
    140, 894, -260, -214, -175, -933, -265, -406, -880, 406, 824, -238, 487, 463, -546, -392, 
    486, -953, -373, 535, 453, 464, -504, 831, 126, 121, 902, -933, -883, 140, -554, 171, 
    -222, 207, 138, -527, -138, 710, 554, 773, 320, 865, -157, -777, -437, 230, -382, 209, 
    -253, 89, -906, 31, 675, -597, -779, -136, 785, -589, -214, -175, -615, 470, 169, -398, 
    566, -468, 996, -625, 843, 449, -575, -425, -347, -179, -734, -11, -714, 738, 35, -27, 
    -445, 433, -375, 453, -610, -310, 42, 505, -126, -726, -23, -171, -675, -449, 779, 628, 
    -421, 237, 904, -722, 675, 32, -289, 242, 992, -632, -910, -328, -74, -386, -600, 85, 
    960, -97, -855, 126, -855, 796, -127, -152, 496, 378, -245, -27, -152, -402, -968, -486, 
    83, 222, -796, -353, 699, -609, 613, -433, -267, 156, 711, -539, -484, -7, -750, -949, 
    -964, -626, 175, -482, -597, 492, -66, 578, -894, 808, 85, -462, -621, -146, 125, -200, 
    -843, -85, -429, 619, 945, -542, 290, -983, 983, -91, 589, -683, -292, -12, 574, 667, 
    765, 144, 302, -699, -542, 494, 750, -97, 851, -625, 246, -618, -351, 496, 246, 185, 
    239, -802, 794, 882, 949, -859, -746, 667, -342, -125, 143, 876, -921, 625, 718, -845, 
    -292, -257, -167, -621, -687, -986, 511, 371, -253, 750, -769, 691, -757, 875, 657, -640, 
    -807, 951, 11, 324, 355, 595, -42, -691, 701, 492, -769, 281, -453, 156, -105, -554, 
    70, 367, -601, -152, -218, -273, -17, 984, 585, -603, -767, 859, -582, 175, -875, 421, 
    716, -320, -537, 359, 152, 46, 804, 951, -63, -933, -712, 269, -687, 550, -703, 617, 
    -273, 660, 597, -204, -289, -23, -281, -226, -832, -668, 101, 417, -3, 121, -951, 348, 
    -257, 648, -671, -21, 332, 617, 585, 484, 628, 585, 652, -835, -605, 908, 916, -37, 
    175, -654, -485, 105, -892, -218, -293, 569, 933, 304, 156, -439, -222, 695, 703, -31, 
    457, -679, 292, -378, 761, 95, -803, -937, -816, -640, -324, -488, -289, 635, 675, -640, 
    -931, 472, -705, 257, -881, -867, 847, 630, -462, -119, -144, -402, -535, -729, 652, 650, 
    -964, 710, -925, -782, -822, 246, -621, 872, 773, 767, 464, -992, -308, 198, 294, 304, 
    -290, -792, 11, -357, 941, -433, 605, -427, -332, 226, 46, 665, 822, -328, -390, 74, 
    269, -291, -781, 382, -27, 921, -37, 523, -257, -216, 878, 775, 678, 40, 32, 65, 
    906, 70, -97, -441, 11, -535, 531, -507, 691, -238, 419, 847, 601, -378, -609, -740, 
    -328, 763, 183, 276, -35, 798, -662, 120, -37, 649, -289, 562, 986, -966, -898, -644, 
    -671, -39, -220, 947, 955, -845, -835, 191, -207, 359, -236, -693, 933, -476, -179, -128, 
    -837, -242, -576, -519, -525, 482, 863, -144, 93, -83, 724, -957, 312, -951, -136, -37, 
    500, 566, 960, 503, -5, -285, -144, 792, 998, -433, 703, -617, 695, 271, -656, 935, 
    156, 105, 513, -483, 743, 574, 343, 213, -917, 257, 246, -876, -336, 776, -847, 294, 
    189, -707, -363, -85, -658, -800, -992, -529, 19, 169, -500, 335, -609, 151, -136, 128, 
    -733, -183, 526, 609, 589, 933, 804, 359, 951, -156, -921, 23, -875, 431, -820, 617, 
    -390, -647, 968, -593, -460, -718, -453, -402, -136, -199, 761, 840, -382, 472, -353, 494, 
    -820, 800, -148, -333, 680, 968, 546, 558, 574, 312, 500, -816, -238, 722, -138, 590, 
    777, 660, -421, 425, 876, -437, -824, -455, -952, -872, -421, -984, -377, 703, -421, -883, 
    35, -667, 574, -753, -781, 861, 300, 741, -902, -162, -637, -669, 644, 515, -119, -345, 
    554, -375, 568, -832, 964, -337, -890, 282, 66, 574, 35, 335, 367, 683, -367, -781, 
    574, 617, -380, 791, -712, 670, 171, -312, -210, 99, 716, 214, 177, 333, -945, -132, 
    -202, 246, -27, 404, -326, 380, -261, 796, 519, -726, -431, -493, 761, -502, -48, -199, 
    -314, 921, 953, -730, 167, -630, 281, -7, 222, 503, -980, -148, -875, -193, -910, -835, 
    -511, -510, 195, 748, -437, 70, -289, 582, -433, 348, 753, -550, -429, -281, -25, -880, 
    -74, -632, -280, 511, -906, -460, 234, -910, 679, -492, -722, 621, -923, -332, -302, -648, 
    -427, -828, -328, -852, 974, 781, -488, 234, -974, 296, -27, 839, 408, -660, -70, 869, 
    621, 393, -483, -222, -625, 843, 402, -671, 687, -216, 958, -491, 734, 235, -558, 99, 
    968, 453, 976, 554, -249, -97, -76, 316, 820, -107, 917, -406, 261, -818, -332, 486, 
    765, 242, 968, 662, 630, 820, 640, -773, -628, 476, -222, 437, -417, 679, -804, 780, 
    757, -83, -798, -156, -960, -800, -908, 959, 755, -977, -492, 894, -164, 527, -93, -964, 
    97, -742, -703, -171, 953, -441, 910, -839, -652, 194, 289, -409, 94, 621, -230, 580, 
    924, -246, -531, 414, 640, 585, 824, 180, 585, 417, -794, -148, 757, 384, -547, 937, 
    316, -359, 93, -935, -613, -804, -980, -642, -384, -531, -7, 1, 460, -847, -955, 82, 
    -914, -316, 326, -80, 295, 625, 250, 780, 179, 354, 953, 93, 912, -945, 626, 291, 
    -632, 839, -429, 63, 410, -556, -230, -909, 974, 706, 440, 186, -636, -613, 673, 225, 
    -242, 93, -726, 523, -574, -417, 320, 728, -259, -255, -878, -70, -621, 832, 222, -625, 
    -949, 300, -462, 955, -310, 882, -978, -985, 7, 847, 222, 968, 74, 310, 609, 106, 
    -234, -165, 748, -875, 738, -765, -326, 105, -113, -152, 697, 998, 605, 195, 435, 816, 
    -304, 238, 417, -508, 87, -703, -735, -464, 257, 988, -148, -267, 447, 311, -692, -744, 
    -160, -375, 751, 976, -23, 828, -570, 175, -27, 113, 916, -611, -585, -609, -386, -828, 
    -453, -238, 964, 734, -274, -792, 859, -441, 359, -238, -686, 355, -476, -937, -199, -484, 
    -589, -31, -558, -39, 550, -807, -191, 820, -707, 62, -85, -196, 632, 37, -335, -755, 
    -363, -839, -367, -93, -908, 613, 385, -310, 351, -582, 585, -476, 610, 597, -900, -632, 
    -464, -211, 842, -406, -242, -812, 519, 835, -843, 777, -579, 476, -511, 609, 798, -207, 
    -335, 226, 591, 640, 939, 509, -425, -578, 832, -589, -317, 830, -414, -480, 859, -335, 
    -762, 971, 933, 187, 714, 300, 3, -271, -277, -602, 810, -179, 367, -878, 414, -751, 
    -933, 626, 986, -565, -306, 8, -713, 421, 351, 507, -945, -35, -627, -99, 463, -15, 
    -6, 744, 511, -929, -917, -924, -800, -241, -535, -126, 60, 773, -11, 427, -519, -420, 
    -460, 257, -728, -316, 360, 937, 765, 27, 3, 802, -798, -328, -70, 83, -683, 238, 
    -74, 19, -328, -605, 570, 158, -264, -548, -613, -222, -547, -390, 925, -142, -152, 527, 
    -753, 310, -996, 496, 838, -804, -960, 974, 39, 132, 798, 708, -138, -992, -149, 796, 
    -378, 35, -488, 152, -273, -279, 435, -587, -105, -386, -785, -843, -707, 717, 691, 386, 
    -640, 880, -755, -953, 999, 335, -914, 543, 496, 339, 484, 582, 484, 230, 121, -120, 
    -574, 744, 808, -164, 177, -400, 54, 298, 912, -70, 864, 546, 148, -617, -113, -312, 
    -531, 347, 667, -937, 933, -203, 621, -128, 540, 515, 21, -599, -820, -404, -222, -359, 
    -253, -548, 0, -363, -445, 755, -908, 812, 638, -871, 888, 324, -420, -396, -437, -429, 
    -332, 555, 382, 207, -914, 390, -265, -357, -734, 972, -56, -279, 503, 246, 814, 964, 
    -410, -378, 441, 679, -950, -949, 632, -457, 496, -285, 488, -505, -457, 382, 328, 238, 
    488, 154, 161, 339, 646, -886, -585, 886, -765, 519, -625, 947, 560, -796, 746, 273, 
    558, -333, 48, 101, 52, 707, -535, -974, 484, -242, 903, -714, 406, -46, -972, 187, 
    843, 597, 425, 687, 191, 757, 609, -371, -304, 718, -861, -677, -484, 320, -162, 375, 
    50, -124, -246, -664, 44, -813, -248, 347, 472, -480, 199, 187, -437, 19, -735, -449, 
    949, 906, -331, -39, -550, -875, -949, 613, -119, 675, 844, -355, 125, -44, 218, -382, 
    628, 23, -617, -667, -355, 851, 230, 871, -254, -341, 15, 566, -793, 925, 219, 644, 
    609, 664, -903, -164, -650, 248, 23, 226, 93, 341, -788, -331, -106, 855, -482, 586, 
    -441, 703, -367, 666, 458, 648, -300, -343, -667, 56, -183, 851, 359, -605, 719, 931, 
    -152, 804, -527, -686, 895, -487, -321, -746, -572, 679, 394, 457, 968, 487, 39, 486, 
    -558, 699, -44, 214, 222, -621, 347, 690, -50, -437, 607, 824, -356, -343, 15, 290, 
    -689, 667, -71, 535, -101, 343, -505, 121, -832, 263, -492, 484, -44, 128, -910, -685, 
    789, -798, -423, 191, -54, 667, -425, -753, 687, 853, 714, -652, -859, -570, -964, 636, 
    718, 66, -249, 625, 598, 761, 166, 394, -312, -394, 757, 588, 246, 367, 960, 781, 
    273, -933, -82, 617, -187, -984, 433, -914, 197, 748, -195, -320, -451, 968, -770, 292, 
    -328, 76, -437, 72, 636, -136, 560, -834, 405, -431, 496, 207, -242, -130, 794, -592, 
    -720, -296, -980, -297, 589, 550, 721, 351, -328, 636, 270, 386, 863, 149, -818, -417, 
    -46, -941, 75, -659, 414, 384, -707, 806, -976, -320, 710, -996, -900, 93, 93, 240, 
    -429, -794, -445, 81, -785, 460, 281, -488, 468, -708, 588, 20, -603, -255, 804, 330, 
    -791, -399, 446, -292, -769, -261, 642, 851, -66, 900, 720, 726, 68, 82, -722, 769, 
    675, 293, -527, -199, -835, -710, 482, 960, -623, -980, 234, 414, -958, 956, 375, -234, 
    125, 650, -324, -194, -433, -55, 0, 964, -774, 710, -980, -479, 873, -632, 449, -187, 
    -449, 902, 144, -621, -402, -871, 623, -835, -179, -488, 11, 792, -669, 42, 672, 351, 
    -405, 878, 828, -567, 994, 878, 625, -13, -149, -561, -998, 939, 566, -464, 570, 218, 
    -324, -731, 773, -355, -611, 140, 730, 343, -791, 281, 746, 203, -546, 596, 650, -535, 
    167, -679, 906, -257, -367, 101, 539, -695, -17, -57, -601, -148, -701, 769, -359, -341, 
    203, -371, 859, -894, 357, 304, -773, -670, 851, 617, 878, 421, -23, -546, -964, 410, 
    39, -632, 480, 816, 351, -335, -85, 929, 818, 968, -960, 914, -760, 500, 583, 375, 
    -140, 54, -64, -464, 791, -243, 811, -852, -35, -939, -128, -269, 597, 3, -320, -343, 
    -89, 525, 335, 879, 480, -429, 736, -265, -886, 453, 757, -160, -980, 647, 193, 834, 
    42, 50, -250, -85, 816, -523, -218, -939, 636, -552, -203, 216, -708, 867, 296, 984, 
    910, -587, 138, -890, 3, -892, 990, 445, -455, 102, 333, -642, -848, -117, -74, 273, 
    501, -244, -425, -375, 906, 746, -871, 341, -58, 937, -964, -222, 635, -935, -472, -851, 
    -222, -414, -972, 769, 691, 355, -136, -894, 665, 214, -929, -159, -500, 949, 911, 210, 
    568, -484, 734, -64, 769, 484, 5, -460, 816, -328, 527, -445, 839, -589, -261, 550, 
    199, -907, 97, 578, 886, 111, 886, 408, 312, 812, -621, 41, -730, 988, -558, -343, 
    699, 585, 142, 577, 370, 840, 347, -79, -539, 164, 671, -519, 187, -503, 109, -71, 
    -902, 136, 968, 0, 968, 39, 375, 609, -678, -939, -714, 171, -785, 613, -781, 308, 
    593, -285, 58, 437, -73, 150, 406, -318, 125, 734, 959, -949, 0, -625, 51, -269, 
    97, 54, 497, 613, 265, 914, 925, 533, 417, 193, 625, -617, -66, -863, 124, 882, 
    855, -557, -396, 878, 615, -113, -853, -363, -230, -505, -535, 765, 570, -130, -891, 115, 
    -691, 679, -742, 353, -369, -892, -277, -195, 167, 698, -667, -144, -950, 167, 40, -589, 
    592, 222, 904, 697, 699, -74, -568, -825, 626, -241, -482, 95, 187, 932, -251, 875, 
    832, -445, 283, -863, 113, -120, -210, 505, 800, -664, -425, -453, -542, -707, 19, 539, 
    345, -458, 691, -328, 570, -726, 554, -773, -457, -869, -753, 917, 580, -851, 304, -750, 
    -320, 543, 675, 866, 699, -27, 154, -636, -750, 449, 85, 968, -997, -126, -521, 768, 
    917, 195, -472, -972, 966, -964, 648, -720, -703, -410, -105, -425, -371, 953, 746, -791, 
    141, -707, -722, 748, -690, -488, 732, -929, 34, 575, -466, 406, -445, -730, -882, -85, 
    -35, 923, -304, 758, 394, -753, 980, -564, -632, -886, 796, 668, -121, 927, 734, -539, 
    -761, 359, 546, -800, 254, -238, -769, 464, -115, 843, 519, 517, 816, -701, 593, 613, 
    183, 476, 104, 871, -484, -7, 366, 210, 199, 568, -726, -385, -182, -481, 613, 281, 
    -691, -451, -755, -933, -997, -843, -93, -398, -346, -511, -337, -712, -85, 107, 363, 802, 
    257, -431, -554, 962, 628, -427, -220, -394, -832, 195, 460, 578, 308, -949, 447, -300, 
    458, -867, 816, -962, 93, 666, -877, 406, -500, -535, 316, 972, -373, -39, 980, 78, 
    -394, -449, 751, -451, 27, 107, -315, 562, -736, 996, 816, 570, 890, 865, 292, -801, 
    923, -976, -320, 246, 236, -609, -296, 117, 429, -957, -714, 474, -599, 996, 796, -129, 
    527, -500, 957, -697, 910, -213, 349, 480, -531, 328, -394, -566, 675, 457, -507, 471, 
    -349, 371, -269, -566, 7, 433, -127, 257, -335, 490, -136, -835, -789, -256, -828, -734, 
    -556, 664, 468, 336, 390, -496, -851, 449, 531, -822, -404, 847, 949, -546, -780, -738, 
    -781, 687, -6, 527, 930, 875, -355, 652, -11, 738, -39, -886, -573, -11, 667, 175, 
    -507, -597, 617, 371, -246, -156, 966, 76, 628, 220, -664, -97, -261, -380, -117, -923, 
    -746, 917, -898, 601, -207, 886, 117, -585, -123, -960, 496, 232, 990, 94, 724, -480, 
    -500, 482, 816, 777, 828, -68, 433, -919, 958, -894, 398, -800, 945, 440, -158, 74, 
    -335, -859, 265, 714, -83, 627, 782, 144, -546, -511, 179, -361, 207, 765, 32, 882, 
    -212, 148, -648, 0, -570, 726, 223, 236, 519, -332, -671, 371, 605, -140, -771, -91, 
    -602, -941, -140, 160, 976, 530, 421, -839, 72, -542, -324, -855, -894, -425, 212, -896, 
    359, 562, -56, 964, -375, -843, 835, 304, -140, -875, 593, 414, 457, 639, -402, -320, 
    141, -269, 78, -758, 355, -507, 675, -812, 867, -398, -445, 693, -121, 212, 707, -339, 
    -867, 953, 328, -992, -941, 181, -927, 50, 19, 194, 489, -701, -598, -472, -105, -761, 
    660, -585, 541, -113, 201, 347, -929, -250, 675, 902, -765, -164, 820, 675, -628, -730, 
    878, -774, 265, 140, 262, 42, -288, 800, -98, 476, 70, 238, 777, -888, -970, -312, 
    -19, 128, 625, -707, -207, 269, 152, -769, -970, -257, -605, 718, -469, 898, 246, 37, 
    101, 8, 763, 585, 478, 910, -628, -675, -320, -140, 425, 199, -941, -734, 421, 667, 
    -882, -562, 660, -474, 339, 457, 136, 78, -447, 287, -419, 250, -548, 964, 42, -569, 
    593, -824, -259, 161, 750, 7, -614, -578, -271, -252, -582, 878, 291, -417, 341, -27, 
    -21, -73, -613, -479, -109, -226, -371, -7, 519, 346, 414, 621, -835, -669, -444, 582, 
    657, -171, 707, 933, -527, -726, 35, -634, 925, 613, 828, 675, 455, 996, 89, 791, 
    878, -896, 468, -406, -769, -567, 889, -735, 845, -616, -680, -843, -583, 872, 679, -167, 
    -5, -810, -328, -10, -392, 691, -955, 433, -210, 58, -132, -902, 646, -187, 191, 953, 
    -167, -183, 568, 691, -54, -50, 550, 743, 900, 234, -292, -246, -476, -824, -85, -199, 
    152, -332, -134, -3, -316, 421, 489, 995, 226, -214, -394, 140, 716, -394, -378, 109, 
    613, -613, -826, -128, -343, 958, -27, -918, -144, 42, -121, 708, -421, -82, 659, -701, 
    566, 224, -66, -74, 345, 678, -396, -208, 716, 635, -960, -105, 664, -250, 128, 146, 
    503, 679, 996, 765, 89, 464, 970, -515, 611, -398, -390, 710, 742, -437, -199, 291, 
    578, -304, -703, 453, 42, -794, 550, -214, 954, -871, -800, -841, -291, -937, -637, -289, 
    113, 783, 70, 757, -492, -277, 693, 209, 259, -962, 66, 644, -964, -167, 135, 294, 
    875, 613, 250, 70, 880, 320, 268, 906, 687, 211, 210, -62, -534, -656, -538, 74, 
    917, -402, -113, 263, 832, -423, 81, -529, -433, 789, -410, 851, 330, 152, -396, 839, 
    -162, 449, 780, -639, -546, -773, 291, 897, 595, 333, -636, -308, 427, 382, -654, 886, 
    -628, -789, 949, 278, 187, 638, 816, 728, 402, 748, 894, -859, 832, -632, 963, 925, 
    -683, 132, 156, -742, -363, 804, 332, -132, -598, 837, -383, 261, 673, 574, 734, -125, 
    93, -699, 835, -564, 296, 580, 90, 960, -175, -432, 245, -849, 615, 25, 571, -173, 
    -531, 698, 116, 343, -652, 155, -769, -74, 413, -121, -806, -828, -687, -156, -300, 942, 
    -179, 246, 189, -960, -392, 305, -640, 269, 623, -768, -293, -121, -332, 792, 626, 283, 
    949, 67, 601, -380, 402, -654, 984, -445, 316, 527, -996, 713, -31, -82, 894, 50, 
    -113, -800, 27, 316, -898, -595, -290, -554, 878, 867, 476, 710, 66, 742, 359, 703, 
    214, 632, 113, -78, -273, 533, -902, 398, 80, -121, -550, 921, 328, -46, -516, -955, 
    -406, 328, -994, 746, 281, 27, 425, 132, 847, 496, -889, 31, -960, -830, 311, -113, 
    500, 531, -132, -320, 914, 0, -15, -256, -640, -199, 660, 113, -600, 492, -74, 742, 
    -312, 972, -7, 646, 447, -124, 898, -910, -62, 814, 667, -513, 840, 866, -738, -774, 
    -724, 710, 773, -266, 759, -945, -834, -876, -406, -476, -480, -285, -873, 0, 867, -949, 
    417, 539, -554, -848, 570, 701, -938, -25, 749, 630, -277, -378, 945, -623, 125, 237, 
    957, 531, 881, 894, -495, 214, 578, -544, 544, -976, -811, -704, -370, 52, 506, -300, 
    -27, 902, 758, 41, 958, 0, -156, -445, -19, 796, -451, 851, -160, 109, -906, 453, 
    -527, 89, -29, -54, 597, 39, -636, -488, 537, 928, 698, -730, 230, 125, -279, -583, 
    -342, -113, 791, -195, 888, -99, 222, -652, 410, -914, -841, 923, -718, 949, 699, -855, 
    -726, 333, -729, 625, -261, 272, 851, -945, -712, 770, -617, 144, 895, 253, -698, 492, 
    596, 300, -32, 126, -671, -488, -551, 360, 85, 144, -675, -898, 734, 890, -382, -681, 
    -824, -941, 125, 621, -912, 289, -327, 93, 663, 289, -427, 230, 697, 941, 574, -332, 
    -341, -455, -277, 121, 425, -558, -199, -2, 682, 570, 332, -906, -767, -906, -492, 427, 
    -199, 929, -11, 384, -54, -763, -774, -675, 761, 894, 820, 692, -570, -398, 773, 136, 
    -398, -115, 951, -729, 111, 492, -570, 125, -675, 167, -679, -6, -332, 396, -19, 902, 
    642, 384, 464, -832, -129, 419, -968, 181, -798, 70, 562, -23, -242, 722, 367, 726, 
    117, -901, 824, -716, 375, -808, 988, -710, 972, 363, 666, 253, -671, -195, 712, -127, 
    -386, -175, -227, 396, -812, -695, 769, 131, 962, 433, -21, -849, -513, 324, -11, 648, 
    -980, 628, 930, 507, 88, -527, 726, 554, -363, 914, 886, -683, -42, 914, -101, -595, 
    824, 781, 722, 931, -97, 714, -664, 273, -507, -263, -308, -296, 580, -824, 253, 847, 
    -712, -241, 715, -394, -976, -517, -845, 7, -750, -910, -66, -395, 19, 162, 66, 847, 
    72, 234, 956, 140, 638, -853, 753, -33, 422, 321, -464, -804, 773, 149, -193, 236, 
    -884, 13, 453, -617, -345, 860, -105, 117, -750, 703, -966, 773, -230, -957, -597, -542, 
    39, 133, 825, 921, -835, -484, 679, 925, -375, -593, 859, -974, 632, 35, -941, 328, 
    -570, 810, -566, -406, 988, -730, -238, 450, -382, 789, 257, 729, 500, 837, -785, 902, 
    921, -496, -35, 695, 630, 945, 574, -101, -564, -816, -280, -312, -593, 87, -675, -240, 
    160, -464, 27, 847, 474, 203, -894, -908, 70, 593, -222, -894, 126, 582, -941, 933, 
    -289, -435, 599, -39, 812, -74, 367, 692, 156, -578, -921, -355, -230, -944, 113, -200, 
    -873, -148, -223, 674, 882, -858, -5, -463, -769, 921, 609, -816, 183, -515, 762, -601, 
    789, -47, 777, 906, 152, 287, -349, -860, -550, 271, 824, 593, -85, -640, 384, -468, 
    128, 722, -832, -60, -907, -304, -823, -289, 476, -406, 785, -85, -628, -890, -335, 131, 
    -947, 86, 230, -203, -621, 66, 238, -46, -232, 625, 941, -101, 488, -539, 769, 545, 
    -191, 503, -54, 898, -49, -632, -861, -443, 708, -453, 632, 179, -183, -500, 46, 335, 
    -546, -781, 220, 921, 199, 511, -585, 726, -156, -851, 89, -770, -218, 508, -320, -517, 
    -769, 660, 394, -68, -749, -50, -218, 656, 197, -156, -701, 31, 960, 968, 394, -363, 
    605, -654, -558, 251, -654, 781, -183, -957, -546, 953, -132, -597, 919, 566, -144, 138, 
    935, 86, -763, 564, -599, -123, -951, -70, 430, -710, 832, 515, 478, 87, 355, 66, 
    671, -791, 718, 435, 937, -847, -740, 117, 136, 596, -761, 898, 671, -756, -413, 240, 
    101, 62, 0, -3, -964, -253, -558, -894, -781, -402, -484, -857, 265, -523, 742, 70, 
    894, -992, -199, -632, 539, 824, -519, 45, -184, -396, 261, 855, 707, 887, -218, 464, 
    -292, -437, -562, -732, -281, 664, 128, 255, 207, -48, -58, 768, 720, -917, -587, 949, 
    792, -645, -152, 357, 195, 289, 402, -467, 296, -11, 525, -669, 855, 608, 343, 222, 
    976, 757, -5, -359, 621, 27, -812, 734, -714, 62, -264, -382, 11, 314, 208, 923, 
    201, -277, -738, -761, -269, -630, -566, 548, -562, 792, 435, -636, -125, -515, -232, 734, 
    224, -835, -995, 569, -929, -396, 495, -593, -76, -824, -191, -673, -15, -458, -257, -238, 
    -585, -722, 410, -261, 339, 433, -126, -273, -272, -638, 898, -560, 272, 707, -476, -181, 
    -552, -660, 496, 990, 643, 355, -640, 554, 316, 332, 272, -121, 609, -611, -414, -710, 
    -134, -413, 960, 687, -878, -478, 30, 240, 636, -220, 760, -675, -865, 229, -900, 277, 
    902, 273, -35, -208, -39, -960, 984, 646, 683, -246, -39, -648, 792, 865, -646, -101, 
    394, -445, 405, 312, -46, 28, 267, -800, -292, -921, 390, -304, -183, 306, -824, 527, 
    -367, -78, 871, -824, -917, 900, 210, -707, -195, -762, 566, 899, -365, 630, -500, -726, 
    -804, -992, 536, -394, -667, -722, -664, -466, 289, 441, 355, 187, 92, -792, -867, 615, 
    718, -93, -402, 531, -27, 630, 376, -957, 964, -335, 224, 438, 777, 397, 514, -402, 
    7, -550, 554, 664, -976, -724, 390, -882, -746, 804, 906, -70, -494, -134, -222, 855, 
    289, -48, 802, 837, 758, 337, -410, 633, 464, 210, 300, 914, 796, 240, -230, -484, 
    117, 134, -597, -667, 513, -364, -46, 482, -86, -976, 632, -7, 301, -916, 691, -428, 
    -623, -281, 953, -531, 785, 58, -300, 227, -199, -736, 70, 15, -406, 269, 410, 472, 
    460, -375, -785, -511, -238, -566, 876, 174, 361, 225, 613, 0, -78, -261, -304, 142, 
    11, 596, -811, -103, -894, 261, 207, -35, 989, 625, -890, 707, -995, -464, 272, -58, 
    9, -937, 363, -636, 66, -218, 254, 154, -33, 537, -691, -449, 953, 807, -443, -214, 
    544, 126, 165, -94, -390, -259, -556, 367, 707, 796, 742, 994, 943, 683, 15, -93, 
    -199, -902, -937, -812, 381, 570, 898, -109, 285, 214, -558, -485, 787, 120, -484, 409, 
    -750, 148, -972, 154, -750, 636, -419, 859, -642, 761, -318, -705, 917, -966, -515, 11, 
    552, -101, -101, 791, 734, -250, -562, -761, -556, 791, 825, 58, 105, 200, 804, 369, 
    598, -515, 613, -195, -453, 146, 537, 386, 929, -308, -750, 429, 683, -316, -210, 431, 
    -677, 786, 736, -812, 535, -15, 871, -753, 333, -414, 957, -664, 699, 468, -687, -952, 
    248, -598, 453, 982, 128, -31, -164, 304, 85, 609, 458, -410, -45, -3, 713, -837, 
    -175, -663, -285, -830, -613, -679, 258, -551, 496, 160, 56, -46, 656, 934, -371, -894, 
    388, -550, -816, 2, -333, -761, 597, -664, 465, -476, 109, -667, 394, -531, 31, -443, 
    -574, 316, -498, -70, 46, 900, -907, 421, 789, 915, -83, 799, -187, 630, 84, 554, 
    -189, 371, -195, 890, 21, 994, -545, 652, 773, 980, 789, -78, -858, 207, 972, 949, 
    -410, -542, 488, -648, -910, 875, 132, 800, 31, -781, 875, -781, 285, -914, 488, -642, 
    179, 242, -566, 488, -347, -804, 97, -898, -324, 835, 500, -571, -660, 763, 566, 812, 
    33, -136, -517, 65, -275, -675, -146, -457, -976, -789, 312, -979, 66, 734, -468, -873, 
    -185, 800, 410, -640, -519, 161, -482, -160, 496, 419, -460, 751, -769, 488, -513, 465, 
    -93, -229, -998, 825, -921, -404, 761, -150, 95, -375, -191, 434, 129, 796, -815, -746, 
    -798, 410, 343, 148, 790, -201, -94, -687, -386, -283, -46, -474, -452, 334, -104, 210, 
    496, -404, -585, 68, 378, 792, -699, -937, 855, -441, -964, 281, -519, 396, 281, -582, 
    636, -513, 359, -968, 265, -17, 66, 150, 578, 175, -920, -876, 417, 486, -974, 167, 
    738, -424, -500, -234, -480, 507, 812, 234, 244, -330, 271, -515, 441, 550, 918, 128, 
    0, 921, 101, -222, -929, 934, 552, -463, 666, -882, 890, 736, -318, 808, -44, -386, 
    765, -746, 605, -982, 917, 152, -390, 984, 703, -660, -637, 541, -679, 882, 136, -949, 
    457, -100, -992, -984, 117, 914, 496, -949, -611, -218, -742, 820, 964, -769, 363, -542, 
    -163, -291, -433, -611, -449, -250, 753, 89, 19, -724, 804, 144, 389, -812, 159, 406, 
    -792, 533, 144, -253, 445, -953, 343, -68, 347, -837, 56, -785, 675, 949, -917, 839, 
    -441, -765, 412, 660, -82, 136, 382, 302, -125, -941, -832, 746, -151, 357, 412, 726, 
    28, 371, 330, 531, 113, 839, -902, -261, -89, -734, 851, 718, 112, -570, -746, 433, 
    -93, -332, 699, 511, -363, 21, -261, 367, -462, -917, -839, 703, 343, 523, -550, 871, 
    -605, 773, 750, -660, -351, 962, -968, -769, 472, 640, 416, -530, -960, 934, 306, 339, 
    417, 453, 710, 250, 117, 62, 207, 328, 789, 472, -835, -876, -773, -156, 722, 265, 
    -169, -941, 980, -738, -986, 710, -986, -511, 15, -582, 917, -588, 269, -546, 214, -539, 
    690, -406, 167, -644, -281, 748, -375, 945, 376, -293, -222, -916, 175, 382, 23, -445, 
    -328, -884, -431, -136, 825, 734, 983, 753, 453, -54, 927, -423, -285, -632, -332, 619, 
    914, 728, -865, -333, 507, -39, -953, -701, 996, -15, 572, -671, -539, 486, -187, -127, 
    -140, 738, -400, 837, 859, -732, 648, 496, -697, 70, 433, -269, 373, -816, -66, -201, 
    -882, 603, 101, 351, 517, -316, -871, -697, -667, -500, -722, -228, 938, 657, -177, 863, 
    226, 23, 125, -54, -729, 531, 292, -136, 83, 917, -597, -140, 664, -835, 725, -839, 
    -449, 66, -605, 753, -871, -585, 175, -761, 87, -429, 728, 665, -669, 632, 933, -439, 
    -246, -717, 339, 742, -863, 727, -373, -831, 316, -933, 82, 296, 515, -958, 425, -144, 
    -767, -568, -904, -539, -576, 832, 709, -894, -257, 679, -788, -125, 630, 460, -785, 265, 
    250, -464, 266, -683, 214, -673, 1, -892, 164, -316, 658, -17, -140, 984, -316, -645, 
    933, -686, -179, 274, -226, 500, 519, -845, -265, -875, 917, 554, 972, 949, 156, 695, 
    562, -105, 833, -332, -222, -429, 497, -753, 339, 332, -925, -968, 984, 695, -136, 824, 
    234, -58, 537, 101, -855, 980, -800, 591, -675, 250, -179, 406, -138, -175, 546, -917, 
    15, 994, -574, 702, 801, -175, -890, -699, 238, 312, -191, -933, -341, -812, -445, -910, 
    -351, 304, -642, 367, -175, -921, -630, -507, -164, -243, 187, 246, 577, -58, 763, 785, 
    940, -15, 886, 0, -196, 636, -421, -202, 79, 156, 521, -664, 863, 527, -392, 937, 
    -816, -62, 242, -535, 808, 128, -19, -255, 74, 763, -753, -199, 405, 449, 695, 356, 
    -769, 114, 201, -304, 599, -359, -179, -824, -658, 50, 312, 253, -478, -628, -437, 883, 
    367, 974, -486, 11, 173, -625, -765, -561, -849, 328, -167, 42, -691, -218, -871, 414, 
    -863, 778, -119, 97, -726, -177, 160, -66, -890, 964, 217, -300, -281, 703, 726, 865, 
    -85, -283, -750, 954, -414, -485, -917, 58, -750, -263, -70, -479, -140, 458, -156, 113, 
    125, -298, -971, -968, 777, 53, -519, -687, 312, 407, 468, -625, -179, -121, -823, 996, 
    -550, -730, -179, 908, -339, -925, 732, -960, -839, -652, 0, 531, 810, -310, -636, -166, 
    -249, -878, 514, -691, 417, -894, -523, 630, 31, -292, 406, -656, -703, -257, -214, 449, 
    -121, 74, 535, 435, 109, 232, -421, 640, 277, -875, 162, 199, -890, 377, -484, -814, 
    466, -792, -663, 271, -23, -669, 716, -302, -687, -47, -52, 800, -784, -992, 222, 832, 
    -832, 695, 910, -838, 181, 99, -621, -408, -82, 267, 805, 397, -660, 472, -832, -605, 
    -130, -359, -441, 957, -382, 972, 964, -187, 216, 78, 701, 501, 972, 89, 316, 316, 
    -412, 292, 531, -546, -458, -777, 929, -365, 792, -31, 507, -560, 832, -445, 812, -710, 
    -855, -919, -601, 789, -367, 712, -488, -66, 709, 201, 845, -125, -70, -621, -539, -171, 
    -140, -696, 302, -406, -140, -201, 730, 458, -527, -980, -710, 461, -82, -738, -199, 460, 
    -562, -488, 577, 818, 662, 730, -76, -164, -82, -378, 101, -513, 171, -187, 62, 529, 
    52, -339, 504, -501, 894, -273, 125, 460, 224, 259, 750, 125, 755, -720, 570, -184, 
    513, 699, 453, 189, -605, 351, -214, -347, -863, -523, 74, 746, 593, -85, -148, -7, 
    982, 641, -203, 769, 558, 976, 683, -911, 946, -290, 429, -584, 531, 855, -232, 369, 
    748, -300, -871, -576, 248, 501, 718, -300, -746, -472, 460, 558, -314, -332, 538, 808, 
    677, -943, 867, -646, 806, 941, 500, -246, 578, -277, 730, -281, 500, 117, 225, 185, 
    -505, 353, 160, 136, -560, -996, 613, 964, -510, 517, 397, 476, -585, 15, 875, 52, 
    46, 531, -949, 914, 867, -558, 422, -470, 340, -968, 261, 533, 523, 683, 191, -714, 
    -249, -791, -919, -621, 117, 962, 758, 978, 640, 632, 480, -390, 507, -798, 80, 410, 
    62, 636, -781, -249, -378, 521, 321, -863, -136, 343, -234, 257, 234, 656, -908, -593, 
    421, -958, -848, -652, 277, 834, 0, 562, -722, -371, -433, -863, 218, -279, 621, 457, 
    414, 421, 634, -232, -207, 208, 148, 954, 781, -140, 800, -70, -980, -820, -339, -595, 
    -394, 197, -425, -841, -152, -207, 992, -859, 301, 128, 70, 171, -468, 688, -613, 449, 
    976, 60, -920, -148, 361, -36, 75, -185, 750, 39, -289, 707, 355, -699, 949, 304, 
    -636, 628, 919, -378, -460, -878, 882, -52, 66, 435, -198, -215, 269, 496, 693, -527, 
    -526, 304, -453, 527, -302, 301, -704, -44, 581, -897, -539, 583, -906, -648, -35, -496, 
    698, 664, 617, -546, -101, -718, 710, -927, 910, -101, -7, -968, -964, 464, -70, 816, 
    949, -41, 720, 93, -615, 152, -83, -511, -406, 175, 753, -271, 42, 335, 332, 878, 
    -730, -898, -203, 964, 210, 630, 625, -748, 632, -933, -296, 271, -291, -31, 480, -650, 
    -703, -83, 531, -816, 609, 215, 234, 291, -954, 650, 999, -531, -127, 347, 186, -544, 
    546, -339, -129, -173, -445, -155, -76, -953, 328, -23, -199, 782, -93, -945, 457, -718, 
    636, 441, 76, 589, -50, -519, -355, 457, 859, 218, -183, -70, -853, 215, -711, -136, 
    -704, 511, -117, 875, 279, 66, -865, 714, -996, 949, -183, -332, -87, -187, 996, 578, 
    171, -612, -933, -851, 203, -171, 945, -503, -304, -781, -628, 859, 638, 489, -242, -617, 
    -386, 7, 348, 915, -451, 232, -590, -113, 593, 35, 796, -593, -839, -515, 453, 241, 
    269, -50, -214, -351, -378, 139, -218, 875, 679, 637, 128, 640, -554, 554, 287, -187, 
    974, 566, 751, -544, -423, 58, 292, 199, -204, -990, -433, 230, 964, 363, -593, -417, 
    429, -683, -359, -882, -171, -851, -434, -859, -3, -720, -484, -933, 138, -617, 828, 505, 
    976, 480, -35, -294, 107, 328, 346, 974, 796, -367, 195, -500, -878, 648, -777, 69, 
    -943, 746, -386, -242, -484, -420, 724, -123, -267, 89, 660, -709, -835, 906, -570, -737, 
    893, 228, -1, 504, -332, 324, 586, -800, 957, 182, -613, 277, 669, 480, 382, 57, 
    -691, 250, 74, -326, 832, -955, 374, -58, 363, 660, 199, 248, 933, -175, 601, -914, 
    -449, -507, -637, 578, -843, 164, 468, 320, 652, 496, -117, 138, 144, -308, -937, 115, 
    154, -199, -220, 234, 203, 441, -945, -269, -976, 222, -372, -367, 156, 447, 683, -365, 
    528, 859, -347, -207, 15, -886, 109, 292, 205, -153, -195, 476, -796, -7, -937, -148, 
    426, 191, -205, -179, -460, -574, -320, 205, -263, 35, 15, 925, 289, 195, -687, 388, 
    285, -800, -123, 816, -745, 751, 0, -820, -50, -990, -162, 757, -225, -464, -716, -984, 
    -332, 633, -589, 517, 83, 856, 402, 898, 9, 394, 955, 535, 855, 54, -476, 343, 
    957, -636, -15, -154, 648, -855, 203, -972, 258, -785, 312, -199, 917, -886, -898, 72, 
    -74, 744, -142, -965, -208, -613, -992, -935, 316, -869, -246, -654, -369, -124, 71, 589, 
    646, -226, -152, -785, 385, 347, 804, 225, 291, 166, -449, -93, 597, 203, -449, -839, 
    -910, 256, 83, -589, -15, 449, -230, -464, -449, 921, 273, -74, -265, -925, 187, -626, 
    66, -546, -281, -572, -490, 847, -921, 804, 634, 505, 339, 62, -39, 890, 464, -314, 
    731, 507, -957, -285, -285, 450, -865, -22, -734, 869, -93, 429, 828, 226, -888, -82, 
    507, 459, -222, -828, -707, 921, -527, 204, -109, -601, -474, 448, 295, -914, -777, 636, 
    689, 214, -167, 453, -589, 820, 312, 672, -195, -647, -460, -197, 84, -494, 595, 275, 
    -347, 832, 70, -748, 496, 152, -335, 375, -207, -937, -207, -230, 658, 523, 121, -384, 
    -316, -773, -300, 242, 92, -136, -66, 35, -431, -312, 214, -854, -347, -58, -429, -140, 
    515, -277, 553, 33, 62, -298, -183, 46, -859, -703, -968, -134, 677, 324, -203, 877, 
    195, 62, -445, -710, 505, -417, -531, 691, -351, -623, 511, -642, -355, 58, 23, 605, 
    543, 390, 894, -289, -320, -58, 937, 717, -438, -675, -820, -66, -468, 988, -757, 382, 
    539, -218, 328, 17, -138, 708, 884, -425, 850, 571, 45, -287, -167, 210, 707, 823, 
    -628, 369, -19, 975, 777, 464, -828, -603, -350, -779, -445, -953, -199, 97, -925, 664, 
    162, -890, -453, -874, -738, -218, -542, 980, 445, 995, -375, 777, -285, -414, 46, 42, 
    -503, -277, -607, 912, 445, -501, 875, 933, -746, 303, 128, -727, 964, 867, -816, 839, 
    -306, -679, -792, -865, 195, -216, 921, -259, -546, -980, 507, 499, 347, -1, -637, 167, 
    -554, 666, 195, 541, -697, -388, 628, 832, -428, -732, -726, 89, -585, -306, -277, 406, 
    269, -808, -189, -695, 938, 85, -765, -542, -505, -955, -710, -62, -357, 798, -226, -267, 
    -685, 781, -976, -972, -120, -679, -328, -371, 363, -937, 66, -145, 769, 875, 763, -101, 
    773, 723, -189, -818, 683, 195, -736, 697, 917, 546, 83, -593, 290, -984, 50, 589, 
    46, -759, -101, 78, -833, -437, -816, -656, 552, 205, 556, -46, -621, -826, -970, 148, 
    -968, 101, 941, 689, 261, 599, -137, -235, 66, 138, 210, 222, -546, 35, -290, -355, 
    -265, -859, 671, 903, 472, -439, -68, -236, 44, 812, 957, -419, 364, 197, -574, -792, 
    515, -686, -839, -751, -503, -769, 320, -878, 332, 320, 210, 929, -656, 117, -222, 46, 
    402, 476, -74, 251, -320, 539, 478, -895, 453, 525, -36, -1, 531, 800, 902, -960, 
    222, 875, 304, -615, 236, 330, -900, -214, -787, 119, 884, 724, -472, -859, -35, 171, 
    818, 416, 238, -123, 477, -781, 701, 833, -154, -652, 265, -976, 121, 515, 960, 250, 
    -335, 93, -732, -360, -753, -738, -372, 117, -728, -808, 434, -525, -93, 761, -347, 833, 
    -316, -958, 916, 617, -425, 210, 976, -535, 27, 296, 507, -925, -740, 503, 285, 375, 
    -585, 699, -312, 584, 251, 773, -288, -554, 778, -417, -679, -167, -777, 648, -156, 208, 
    164, -992, -978, 187, -113, 480, -726, 106, 564, -279, -283, 621, 250, -878, -369, -867, 
    -134, 897, -312, 621, 570, 152, 550, -80, 992, -876, 433, 363, 769, 56, -513, 363, 
    343, -815, 758, 744, 953, -375, -790, 582, 349, 281, 796, -132, 29, 325, -714, -753, 
    806, 152, -199, 542, 421, 385, 496, 734, -562, 457, 375, -699, -542, 646, 398, -351, 
    93, 713, 93, 574, -169, -179, 617, 230, -167, -87, 515, 271, 792, 212, 847, 554, 
    785, 323, 507, 757, 156, 89, 339, 417, -671, 760, -675, 759, 944, -29, -89, 625, 
    -852, -431, -542, 25, -93, -896, 818, -856, 399, -156, 946, 570, -112, 941, 863, -578, 
    -785, 824, 334, -652, -378, 167, 199, 867, -847, -182, -203, 144, 31, 62, -648, -304, 
    352, -107, -722, -582, -814, 875, -582, 832, -183, -480, -74, 968, 722, 167, -546, -973, 
    -248, 545, -808, 181, -85, -58, -531, -816, -707, 740, -416, 927, 281, 378, 914, -490, 
    85, -85, 214, 789, 39, 633, -238, -481, 195, -475, -161, 640, 858, -611, -484, 91, 
    656, 562, -267, -436, 525, 482, 359, -177, 171, 531, -673, 943, 843, 628, 271, -587, 
    -498, 621, 343, -589, -170, 74, 874, -246, -101, 851, 136, 468, -234, -913, -998, 421, 
    472, 853, 992, -203, 363, -785, -693, 923, -550, -562, 351, -988, -336, 136, 808, 19, 
    -380, 339, 953, -367, -462, -259, 435, 226, 805, -429, -441, -355, -519, 85, -878, 511, 
    460, 70, 312, -958, -707, 5, 332, -247, 406, 46, -441, 465, -38, -246, -621, -751, 
    -467, 738, -603, -376, -710, -84, -720, 960, -242, 998, 347, 955, 78, 301, 301, -703, 
    701, 914, 31, -564, -746, 23, 224, -341, -724, -880, 11, -214, 500, -863, -244, -833, 
    777, 515, 339, -695, -544, -892, -976, -475, 989, -710, -406, -425, -554, -785, 277, -66, 
    -386, 773, -77, 880, -582, 468, -382, -378, -664, -296, -248, 468, -287, -861, 191, 853, 
    -242, -9, 921, -23, -574, -846, -503, -373, 313, -960, -646, 46, 902, -455, 375, 140, 
    505, -289, -27, -769, 82, 951, -245, -226, -441, 731, -613, -225, -660, 539, 226, -333, 
    224, 160, -964, 562, -640, -312, -816, -921, 917, -339, -83, 265, 109, 953, -523, 283, 
    -550, 183, 136, 207, -465, -660, 656, -476, -593, -990, -199, 763, 519, 335, -523, -562, 
    -156, -464, 558, -355, -891, 707, 312, 382, 177, 172, -912, 882, 671, 273, 476, -367, 
    300, -182, -187, -253, -775, 773, -621, 183, -335, -785, -671, 886, -640, -655, -328, 875, 
    -800, -70, -168, 970, 156, -621, -515, -752, -741, 78, -890, 95, 890, 863, 785, -476, 
    679, -976, -580, 550, -696, -585, 673, -746, 99, 238, 562, 371, -921, 658, -289, 684, 
    968, 363, -82, -486, -292, 414, 382, 591, 488, -931, 785, -318, 369, 269, -738, -164, 
    333, -390, 937, 734, 316, 203, -964, 316, -753, -873, -462, 443, -714, 250, -19, 813, 
    267, 738, -769, -519, -259, -230, -703, -753, -285, -251, -828, -539, -42, -640, -875, -177, 
    554, -707, 77, 42, 718, 390, -830, -324, 337, 101, 121, 953, 589, 968, 483, -437, 
    -994, 162, -363, -982, 356, -595, -988, 138, 806, -742, 148, 844, 738, -139, 398, 636, 
    -375, -359, -767, 601, 679, 187, 726, -890, 777, -701, -519, -210, -871, 5, 659, 955, 
    -393, -621, -371, -48, -446, -927, -195, 878, -793, 230, -531, 912, -300, -855, -250, 274, 
    -54, 742, -316, 832, 867, 207, 455, -454, 981, -687, -621, 583, 446, -160, 865, -167, 
    54, 3, 566, 636, -327, 293, -660, -421, 867, 172, -933, 738, -394, 15, 35, 332, 
    244, -259, 254, -703, -437, 132, 506, -89, 50, -425, 273, 46, 228, 765, -273, 496, 
    -948, -259, -675, -158, -429, 58, -195, 466, -496, 146, -242, 505, -789, -108, 758, -941, 
    -750, 82, -980, 734, -742, -11, -119, -198, 891, -183, -742, 882, 433, 593, -701, 940, 
    -461, 390, 585, 789, 526, -441, 308, -585, -722, -89, -633, 46, -419, 276, -251, -589, 
    -855, -753, 421, -484, 8, 3, 550, 839, -777, 488, -39, 417, 828, 634, -125, -890, 
    720, 320, -727, -273, 632, 660, -863, 742, 621, 483, 298, 976, -859, 199, 202, -574, 
    -580, -376, 929, 578, 160, -475, -823, -402, 375, 108, -479, -765, 550, 42, -246, -953, 
    804, 474, -808, -273, -742, -636, 722, 710, -19, 792, -777, 392, -636, 85, -86, -722, 
    -964, -390, 822, 382, 267, -246, -634, 392, -843, -510, -453, 707, 415, -7, -902, 191, 
    -736, -220, -980, -875, -886, -917, 367, -3, 699, -599, -400, -977, -897, -125, 558, 931, 
    -679, -3, 812, 453, -773, -306, 273, 82, -712, -738, 271, -363, 463, 363, 769, 953, 
    -558, 902, -250, -703, -390, -816, 560, -672, 11, -671, -843, -660, 894, 925, -351, 548, 
    50, 554, 890, 133, 883, -617, 878, 287, 937, -186, -302, 222, 913, -294, -843, -984, 
    968, -197, 437, -84, 763, -402, 474, 460, 214, -414, 177, 194, -144, -28, 480, -766, 
    -210, 268, -742, -478, 273, -488, -970, 675, 265, 669, -746, 121, -886, 677, 101, -937, 
    -875, 742, -908, 328, 85, 808, 562, -210, -297, -597, -511, 732, -87, -150, -169, -542, 
    597, 904, 886, 925, -416, -136, -58, -177, -949, 97, -484, -832, -273, 722, 311, 521, 
    -664, -437, 859, -332, -949, -101, -160, -695, 70, -832, -699, 621, 234, -351, 507, 914, 
    333, -871, -340, 466, -182, 791, 97, -890, -269, -191, 99, 507, -808, 687, 167, 871, 
    232, 211, -50, 777, 203, 760, -195, 281, -150, -194, -273, -27, -299, 957, -78, 710, 
    -669, -128, -279, 74, -972, 272, -74, 378, -181, -460, 472, 679, 619, 912, 164, -867, 
    378, 532, -257, -40, -109, 325, -66, -484, 746, 285, 152, -777, -316, -902, -933, 273, 
    -437, -357, 910, 917, -990, -35, 825, -93, -535, 626, -603, -160, 824, -18, 656, 714, 
    701, 970, -835, -789, -589, -82, 58, 800, -109, -414, -529, 101, 394, 339, 625, 449, 
    -483, -409, -490, 587, -781, -476, 472, 441, 945, -902, 718, 707, 126, -908, -19, 900, 
    679, 824, -19, -671, -382, 734, 253, 144, 890, -875, 126, -348, 137, 664, -144, -328, 
    289, -457, -440, 776, 285, -878, 187, -543, -925, -738, -285, -232, -250, 222, 468, -691, 
    -570, -613, 367, -587, -132, 953, -567, 632, 167, 364, -968, -267, 650, 699, -180, 222, 
    -472, 242, -695, 511, -304, 6, 648, 921, 964, 620, -796, 5, -460, -657, -238, 91, 
    85, 957, 537, 566, -96, -648, 80, 150, 554, 175, -328, 863, -392, -253, -253, -502, 
    123, -156, 841, 517, 218, -625, 765, -806, 562, -261, 876, -701, -216, -105, 765, -683, 
    -554, -621, -58, -894, 85, -257, 892, 800, -802, -75, 146, 714, 867, -671, -578, -742, 
    -964, 250, -847, 984, 207, 871, 824, -429, 554, -542, -441, -89, -136, -843, 662, 305, 
    415, 318, 707, 171, -929, 371, 0, -985, -689, -167, 93, 824, 237, 556, 941, -527, 
    -537, -405, 82, 640, 260, -458, -468, 873, 476, 183, -835, -572, -988, -648, 670, -636, 
    -386, -689, 273, 338, 917, 759, 919, 207, -147, 285, 775, -292, 167, -617, -919, 171, 
    -778, -167, -449, -109, 762, -628, 605, -617, 617, -976, 660, -723, 765, -660, -684, -984, 
    763, 31, 984, -560, -571, -664, 875, -486, -746, -632, -642, 512, -3, -664, -601, -446, 
    -273, -191, 406, -737, -592, 412, 914, 367, -882, -79, -49, -773, -824, 441, -253, -398, 
    -66, 441, -619, -570, 250, 162, -134, 710, 364, -278, 566, 117, -551, 148, -842, -847, 
    -800, -50, 984, -828, 187, 144, 796, 882, -948, -481, 595, -93, -226, -937, 355, 729, 
    -742, 750, 214, 693, 715, 652, -382, -759, -420, -773, 468, 685, 865, -910, -646, 484, 
    656, 738, 382, -250, -787, 363, 15, 642, 984, -460, -494, -35, 119, 277, -162, -886, 
    916, -984, -113, 683, -998, 833, 304, 957, 388, -808, 793, -144, -758, -292, 531, -509, 
    -113, -404, 910, 896, 435, 46, 970, 27, 906, 961, 716, -789, 712, 839, 433, 781, 
    -642, 162, 58, -769, -965, 762, 781, 902, 996, -554, 462, -945, 980, 789, -763, 427, 
    996, 919, -841, -453, 558, -632, -371, 82, 328, -501, -558, 0, 406, -153, -177, -544, 
    322, -927, 146, 439, 72, 277, 89, -957, 238, 808, -371, -621, 833, 529, -420, 193, 
    503, -722, 800, 935, -517, 986, -835, -500, -695, -704, 107, -957, 425, 666, -250, 339, 
    226, 413, 335, -234, 998, -152, 117, 323, -660, 50, -210, -894, 617, 716, -347, -969, 
    -253, -539, -58, 27, 468, -523, 839, 824, -901, 421, 689, -914, 492, 523, 0, 148, 
    560, -421, 988, -132, -980, 884, -882, -683, 37, -89, 54, 216, 656, 130, 537, 632, 
    -212, -939, -281, -445, 936, -103, 398, -898, 95, -613, 960, 843, -730, -712, 74, 230, 
    507, 546, 594, -818, 757, 816, 347, 996, -177, 414, -722, -260, -56, 562, 816, -27, 
    945, -93, -226, -144, 304, 699, 386, -902, -19, 636, -167, -578, 427, 322, -902, 23, 
    837, -386, 523, -632, 273, 351, 547, 304, 500, -386, -933, 136, -29, 912, -144, -488, 
    -853, -914, -328, -886, 41, 316, -125, -914, 336, 242, 148, -741, -187, 125, 424, -750, 
    585, -574, 890, -634, 455, 19, -229, 93, -59, -605, -185, -777, 677, -824, 888, 373, 
    324, 853, 484, 281, -658, 828, 876, 421, 621, 421, 427, 423, -500, -547, -589, 203, 
    -980, -628, -222, 728, -93, 398, -930, 50, 144, -951, -162, -789, -542, 696, -208, 949, 
    42, -304, 514, -906, -894, -929, 761, 853, -740, 519, 121, 308, 808, -44, 98, 322, 
    688, 392, 968, -859, 97, -425, -609, -937, -835, -546, 277, -437, -523, -902, -683, -511, 
    476, -234, -91, 826, 246, -831, 978, -390, -89, 171, 910, 925, -466, -193, 62, -902, 
    -699, -851, 188, 765, -382, 70, 436, -109, -515, 58, -6, -169, -988, -429, 257, -675, 
    164, 16, 531, -328, -491, -578, 148, 673, -363, -517, 246, -943, 87, -500, 512, -82, 
    -903, -738, -430, -210, -274, -3, -726, 984, -203, -980, -852, 328, -621, -382, -761, -847, 
    -531, 374, 66, 765, -646, 355, -238, 417, 39, -519, 283, -804, -197, 382, -906, -437, 
    -960, -298, -652, -19, -531, -474, 730, -949, -636, -572, -656, -656, 242, -410, -660, -356, 
    259, -261, 250, -70, 714, 625, 291, 472, -544, 20, 64, 216, -674, -955, 51, 523, 
    276, -469, -955, -908, 823, 149, -3, -560, -146, -894, -113, 144, -292, 218, 628, 638, 
    478, 843, -39, -250, 507, 330, 979, 679, -644, 875, 274, -261, -906, -253, 693, 677, 
    257, 230, 220, -925, 257, -122, -455, -464, -69, 742, -39, 731, 894, 937, -138, -894, 
    -935, -597, 990, -60, -332, 685, 515, 503, -828, 509, -3, -913, -917, 982, -527, -285, 
    -722, 849, 939, 585, -799, -835, -210, -496, 70, -171, -316, -156, 275, -515, 582, 173, 
    675, 781, -630, 808, -390, 833, 234, -15, -578, -68, -558, 972, 179, 74, 367, -986, 
    679, -718, 214, 112, -238, 835, 867, -500, -250, 625, 9, 423, -197, -675, 745, 351, 
    437, 433, 384, -56, 625, -832, -261, -921, 671, 33, -679, -873, 562, 370, -414, 562, 
    -781, 781, -699, 417, 488, 167, -801, -924, -941, -464, 375, -595, 148, 730, -355, -406, 
    -662, 595, 789, 125, -916, 661, -66, 640, -939, 542, -250, -220, 800, 511, 488, 937, 
    -503, -899, -363, -578, -408, -457, 259, -207, 263, -304, -765, -587, 910, 838, -917, 627, 
    -937, 535, 308, -775, 519, -890, -23, -82, -121, -3, 875, -468, 771, 29, 718, 719, 
    -421, 570, -731, -308, 945, -774, -378, 210, -417, -468, -289, 828, -221, -15, -996, -599, 
    -384, -859, 246, -511, 826, -727, 357, 195, 718, 753, 285, 250, 797, -408, 289, -539, 
    -82, 320, 847, 798, 886, 41, 180, -327, 176, 472, -731, -197, -709, -285, -713, -584, 
    -193, 978, 509, -906, 152, -214, 597, 121, 572, 480, 433, -599, 593, 863, -125, 363, 
    211, 464, -410, -953, -875, -875, 521, -566, 515, -55, 214, 128, -306, 646, -460, 644, 
    796, -70, -261, 127, 210, -199, -237, -54, 234, -373, -539, -755, -273, -189, 310, 769, 
    369, -156, -639, -582, 457, 898, 634, -667, -683, -164, -851, 39, -734, 705, 414, 52, 
    -273, 423, 703, 953, -504, -222, -113, 79, -679, -597, -564, 46, -746, -948, -980, -19, 
    -862, 466, 421, 128, -163, -677, 50, -484, 968, -901, 97, -738, -648, -132, -178, 0, 
    466, -746, 726, -500, -328, -595, 183, -889, 627, 791, -484, 957, -406, 70, -50, -507, 
    -23, -496, 195, -853, 574, 744, -83, 470, -816, 373, -528, -373, -820, -765, -527, 824, 
    169, -604, -372, 800, 406, -687, -400, -817, 259, -410, -847, 443, 422, -582, -570, -511, 
    740, 757, -851, 879, -699, -984, 109, 921, -433, 917, 0, 910, 380, -632, -359, 478, 
    -359, 373, -535, -320, -945, 156, -979, -484, 149, 816, 936, 542, 694, 277, 691, -457, 
    987, -785, 210, 1, -972, 739, -304, -333, 910, 351, -940, 785, 277, 719, -539, 582, 
    -896, 121, 275, -824, -546, -742, -262, -160, 464, -292, 462, 513, 11, 605, -74, 172, 
    -865, -761, 601, -687, 998, -916, -675, -312, -7, -539, 890, -746, 289, 91, -786, 305, 
    -882, 285, -931, -553, -29, -359, -605, 890, 583, -62, 303, -422, 296, -873, -683, -7, 
    -890, -273, 980, -574, -658, 713, -795, 1, 507, -937, -160, -398, 801, -947, 160, -675, 
    705, 191, -574, -859, -11, 571, 503, 304, -717, 380, -386, 181, -88, 554, -115, 210, 
    867, 482, -109, 773, 980, -683, 490, 931, 796, 432, 488, 339, -531, -308, -578, 962, 
    914, -828, -667, 557, -648, -535, -992, -365, -617, -304, -457, 0, 141, -332, -853, -687, 
    160, 965, 832, 898, -731, 207, 191, 25, 210, 644, 478, 683, -441, -949, 45, 13, 
    140, 101, 425, -437, 468, 0, -39, 101, 459, 175, -39, -902, -39, -660, -318, 389, 
    640, 534, -273, -398, 363, 656, -781, -535, -554, 105, 937, -640, 804, -406, 433, -941, 
    -820, -832, 74, -800, -302, -566, 42, 465, -414, 78, -929, -15, -511, -427, -535, 501, 
    -351, 570, 964, -265, 861, -992, 74, 500, -923, 54, 3, 52, 336, -378, 152, -226, 
    296, -191, -39, 808, 449, 790, 617, -542, -360, 621, -697, -259, -554, 237, -164, 466, 
    -621, 25, -320, 164, 224, 35, 951, 882, 35, 968, -255, 935, -238, 866, 347, 422, 
    -878, 603, -250, 734, -201, -894, 441, -352, -628, -214, 835, 984, -837, 603, -199, 687, 
    -156, 564, -289, -757, -672, 939, 945, -765, -421, -140, 242, -800, -839, 746, -408, -732, 
    -542, -644, 390, 550, -294, 881, 29, 509, 414, -9, -93, -339, 921, 980, 718, 113, 
    -285, 390, -425, -558, -152, 0, 507, -640, -875, 707, -873, 559, 60, 513, -964, -207, 
    -976, -945, -191, 661, 649, 814, -121, -359, 804, -16, 154, 167, -894, -406, 281, -265, 
    199, -521, -60, -757, 488, -308, -964, -230, -765, -234, -492, 607, -316, 132, 505, 546, 
    -452, -148, -269, 669, -375, 914, -988, -72, -148, 564, 265, 866, 515, 709, -11, 660, 
    -609, -664, 3, 406, 560, -652, 876, -7, -462, -363, 867, -26, -890, -515, 726, -117, 
    232, -354, 703, -472, 575, -429, -281, -1, 409, 210, -27, 154, -818, 792, -371, -605, 
    -763, -978, -697, -769, 835, 966, 363, -119, 619, -994, 11, 863, 941, -164, -125, 871, 
    52, -839, 669, -981, 648, -631, 247, 572, -396, -636, -127, 238, 54, -689, 105, -128, 
    -707, 292, 828, 312, 449, -718, 607, -140, 613, -500, 246, -980, 611, 423, -796, 765, 
    773, 54, 937, -476, 76, 654, 476, 355, -134, 82, 597, -496, 303, -191, 234, 757, 
    -964, -433, -615, -500, -743, 464, 97, 977, -710, 151, -304, -808, 636, -152, 732, 542, 
    -58, -42, -470, 210, 902, -394, -5, 509, -39
>>

NoiseOfHash(n) == NoiseTable[Abs(n) + 1]

\* The hash x + 57*y + 113*z of the truncated coordinates.  The wrapping
\* operations equal the exact ones: the coordinates stay far below 2^31.
noise(pos) ==
    Let(pos, LAMBDA p :
        NoiseOfHash(AsI32(p.x) + AsI32(p.y) * 57 + AsI32(p.z) * 113))

\* lines 124-128: the loop, with `remaining` turns to go
RECURSIVE fractal_loop(_, _, _, _, _)
fractal_loop(pos, remaining, value, amplitude, frequency) ==
    IF remaining <= 0 THEN value
    ELSE Let(<<value + Mul(noise(Scale3(pos, frequency)), amplitude),
               Mul(amplitude, 500),
               Mul(frequency, 2000)>>,
             LAMBDA t : fractal_loop(pos, remaining - 1, t[1], t[2], t[3]))

fractal_noise(pos, octaves) ==
    Let(pos, LAMBDA p : fractal_loop(p, octaves, 0, One, One))

----------------------------------------------------------------------------
(* Lighting *)

\* the clamp left out
simulate_lighting_unclamped(normal, light_dir) ==
    Let(Length3(light_dir), LAMBDA light_dir_length :
    Let(IF light_dir_length > 0
        THEN Divide3(light_dir, light_dir_length)
        ELSE light_dir, LAMBDA normalized_light_dir :
    Let(Dot3(normal, normalized_light_dir), LAMBDA intensity :
        Mul(intensity, 800) + 200)))

simulate_lighting(normal, light_dir) ==
    Let(Length3(light_dir), LAMBDA light_dir_length :
    Let(IF light_dir_length > 0
        THEN Divide3(light_dir, light_dir_length)
        ELSE light_dir, LAMBDA normalized_light_dir :
    Let(Dot3(normal, normalized_light_dir), LAMBDA intensity :
        Mul(FMin(FMax(intensity, 0), One), 800) + 200)))

----------------------------------------------------------------------------
(* Procedural colour library *)

rotate_planet_position(pos, time, rotation_speed) ==
    Let(Mul(time, rotation_speed), LAMBDA angle :
    Strict2(LAMBDA cos_a, sin_a :
                Vec3(Mul(pos.x, cos_a) - Mul(pos.z, sin_a),
                     pos.y,
                     Mul(pos.x, sin_a) + Mul(pos.z, cos_a)),
            Cos(angle), Sin(angle)))

\* lines 185-206: the colour of the elevation band
rocky_band(elevation) ==
    IF elevation > 700 THEN Scale3(Vec3(600, 200, 50), elevation)
    ELSE IF elevation < 400 THEN Scale3(Vec3(300, 100, 50), elevation + 300)
    ELSE Scale3(Vec3(800, 300, 100), elevation)

rocky_planet_color(pos, time) ==
    Let(rotate_planet_position(pos, time, 300), LAMBDA rotated_pos :
    Let(fractal_noise(rotated_pos, 4), LAMBDA base_noise :
    Let(fractal_noise(Scale3(rotated_pos, 8000), 2), LAMBDA detail_noise :
    Let(Mul(base_noise + Mul(detail_noise, 300), 500) + 500, LAMBDA elevation :
    Let(Abs(Mul(fractal_noise(Scale3(rotated_pos, 10000), 1), 2000) - One),
        LAMBDA lava_pattern :
    Let(rocky_band(elevation), LAMBDA final_color :
        IF lava_pattern > 700
        THEN Vec3(final_color.x + Mul(1000, 500),
                  final_color.y + Mul(400, 300),
                  final_color.z + Mul(100, 200))
        ELSE final_color))))))

\* the storm sample of gas_giant_color: fractal_noise(.., 2)
storm_noise_of(rotated_pos, time) ==
    fractal_noise(Vec3(Mul(rotated_pos.x, 2000) + Mul(time, 50),
                       Mul(rotated_pos.y, 2000),
                       Mul(rotated_pos.z, 2000)), 2)

\* storm_noise > 0.8 && rotated_pos.y.abs() < 0.3
storm_applies(storm_noise, rotated_pos) ==
    storm_noise > 800 /\ Abs(rotated_pos.y) < 300

\* (storm_noise - 0.8) * 5.0
storm_strength_of(storm_noise) == Mul(storm_noise - 800, 5000)

\* a * (1 - m) + b * m, per channel
Mix3(a, b, m) ==
    Vec3(Mul(a.x, One - m) + Mul(b.x, m),
         Mul(a.y, One - m) + Mul(b.y, m),
         Mul(a.z, One - m) + Mul(b.z, m))

\* lines 246-252: the band colour
gas_giant_band(band_pattern) ==
    IF band_pattern > 700 THEN Vec3(400, 600, 900)
    ELSE IF band_pattern < 300 THEN Vec3(700, 300, 900)
    ELSE Vec3(600, 400, 800)

\* lines 225-260: the colour of gas_giant_color before the storm is added
gas_giant_clouds(rotated_pos, time) ==
    Let(fractal_noise(Vec3(Mul(rotated_pos.x, 3000) + Mul(time, 100),
                           Mul(rotated_pos.y, 3000),
                           Mul(rotated_pos.z, 3000)), 3), LAMBDA cloud_base :
    Let(fractal_noise(Vec3(Mul(rotated_pos.x, 8000) + Mul(time, 200),
                           Mul(rotated_pos.y, 8000),
                           Mul(rotated_pos.z, 8000)), 2), LAMBDA cloud_detail :
    Let(Mul(Sin(Mul(rotated_pos.y, 4000) + Mul(time, 50)), 500) + 500,
        LAMBDA band_pattern :
    Let(Mul(cloud_base + Mul(cloud_detail, 500), 500) + 500,
        LAMBDA cloud_intensity :
        Scale3(gas_giant_band(band_pattern), cloud_intensity)))))

gas_giant_color(pos, time) ==
    Let(rotate_planet_position(pos, time, 500), LAMBDA rotated_pos :
    Let(gas_giant_clouds(rotated_pos, time), LAMBDA final_color :
    Let(storm_noise_of(rotated_pos, time), LAMBDA storm_noise :
        IF storm_applies(storm_noise, rotated_pos)
        THEN Let(storm_strength_of(storm_noise), LAMBDA storm_strength :
                 Mix3(final_color, Vec3(900, 500, 800), storm_strength))
        ELSE final_color)))

\* ((theta * 3.0 + time * 0.5).sin() * 0.5 + 0.5) * 6.0
rainbow_bands_of(rotated_pos, time) ==
    Let(Atan2(rotated_pos.y, rotated_pos.x), LAMBDA theta :
        Mul(Mul(Sin(Mul(theta, 3000) + Mul(time, 500)), 500) + 500, 6000))

\* the band rounded to the nearest integer instead of truncated
rainbow_hue_rounded(rainbow_bands) ==
    Let(AsI32(rainbow_bands + 500), LAMBDA band :
        CASE band = 0 -> Vec3(1000, 0, 0)
          [] band = 1 -> Vec3(1000, 500, 0)
          [] band = 2 -> Vec3(1000, 1000, 0)
          [] band = 3 -> Vec3(0, 1000, 0)
          [] band = 4 -> Vec3(0, 0, 1000)
          [] band = 5 -> Vec3(300, 0, 500)
          [] OTHER    -> Vec3(500, 0, 500))

\* match rainbow_bands as i32 { ... }
rainbow_hue(rainbow_bands) ==
    Let(AsI32(rainbow_bands), LAMBDA band :
        CASE band = 0 -> Vec3(1000, 0, 0)
          [] band = 1 -> Vec3(1000, 500, 0)
          [] band = 2 -> Vec3(1000, 1000, 0)
          [] band = 3 -> Vec3(0, 1000, 0)
          [] band = 4 -> Vec3(0, 0, 1000)
          [] band = 5 -> Vec3(300, 0, 500)
          [] OTHER    -> Vec3(500, 0, 500))

rainbow_planet_color(pos, time) ==
    Let(rotate_planet_position(pos, time, 400), LAMBDA rotated_pos :
    Let(rainbow_hue(rainbow_bands_of(rotated_pos, time)), LAMBDA color :
    Let(Mul(Sin(Mul(time, 2000)), 200) + 800, LAMBDA pulse :
    Let(fractal_noise(Vec3(Mul(rotated_pos.x, 20000) + time,
                           Mul(rotated_pos.y, 20000),
                           Mul(rotated_pos.z, 20000)), 1), LAMBDA sparkle :
    Let(Mul(sparkle, 300), LAMBDA glow :
        Vec3(Mul(color.x, pulse) + glow,
             Mul(color.y, pulse) + glow,
             Mul(color.z, pulse) + glow))))))

\* a * m + b * (1 - m), per channel
Blend3(a, b, m) == Mix3(b, a, m)

\* a.powf(2.0)
Pow2(a) == Let(a, LAMBDA x : Mul(x, x))

glitter_planet_color(pos, time) ==
    Let(rotate_planet_position(pos, time, 350), LAMBDA rotated_pos :
    Let(Sin(Mul(rotated_pos.x, 4000) + Mul(time, 300)), LAMBDA pattern1 :
    Let(Cos(Mul(rotated_pos.y, 4000) + Mul(time, 200)), LAMBDA pattern2 :
    Let(Pow2(Mul(pattern1, 500) + 500), LAMBDA mix1 :
    Let(Pow2(Mul(pattern2, 500) + 500), LAMBDA mix2 :
    Let(IF mix1 > 600
        THEN Blend3(Vec3(1000, 800, 900), Vec3(800, 800, 1000), mix1)
        ELSE Blend3(Vec3(800, 1000, 900), Vec3(1000, 900, 800), mix2),
        LAMBDA color :
    Let(fractal_noise(Vec3(Mul(rotated_pos.x, 40000) + Mul(time, 4000),
                           Mul(rotated_pos.y, 40000),
                           Mul(rotated_pos.z, 40000)), 1), LAMBDA glitter :
        IF glitter > 950
        THEN Vec3(color.x + 400, color.y + 400, color.z + 400)
        ELSE color)))))))

\* a.powf(3.0)
Pow3(a) == Let(a, LAMBDA x : Mul(Mul(x, x), x))

\* (x*x + 9/4*y*y + z*z - 1)^3 - x*x*z^3 - 9/80*y*y*z^3
heart_shape_of(x, y, z) ==
    Pow3(Mul(x, x) + Mul(Mul(Div(9 * One, 4 * One), y), y) + Mul(z, z) - One)
    - Mul(Mul(x, x), Pow3(z))
    - Mul(Mul(Mul(Div(9 * One, 80 * One), y), y), Pow3(z))

heart_planet_color(pos, time) ==
    Let(rotate_planet_position(pos, time, 450), LAMBDA rotated_pos :
    Let(heart_shape_of(rotated_pos.x, rotated_pos.y, rotated_pos.z),
        LAMBDA heart_shape :
    Let(Sin(Mul(rotated_pos.x, 5000) + Mul(time, 500)), LAMBDA pattern1 :
    Let(Cos(Mul(rotated_pos.y, 5000) + Mul(time, 300)), LAMBDA pattern2 :
    Let(Div(pattern1 + pattern2, 2 * One), LAMBDA pattern :
    Let(fractal_noise(Vec3(Mul(rotated_pos.x, 30000) + Mul(time, 3000),
                           Mul(rotated_pos.y, 30000),
                           Mul(rotated_pos.z, 30000)), 1), LAMBDA shine :
    Let(IF heart_shape < 0
        THEN (IF pattern > 500 THEN Vec3(900, 500, 900)
              ELSE Vec3(1000, 600, 800))
        ELSE Vec3(1000, 900, 950), LAMBDA base_color :
    Let(Mul(shine, 300), LAMBDA glow :
        Vec3(base_color.x + glow, base_color.y + glow, base_color.z + glow)
    ))))))))

----------------------------------------------------------------------------
(* Fragment shader *)

\* lines 430-439: the normal is the normalised world position
fragment_normal(world_position) ==
    Let(Length3(world_position), LAMBDA length :
        IF length > 0 THEN Divide3(world_position, length)
        ELSE Vec3(0, 0, One))

\* lines 445-454: the light direction, normalised
fragment_light(light_dir) ==
    Let(Length3(light_dir), LAMBDA light_length :
        IF light_length > 0 THEN Divide3(light_dir, light_length)
        ELSE Vec3(One, 0, 0))

\* the default arm sent to the last variant instead of the first
planet_color_fn_last_default(planet_type) ==
    CASE planet_type = 0 -> "rocky_planet_color"
      [] planet_type = 1 -> "gas_giant_color"
      [] planet_type = 2 -> "rainbow_planet_color"
      [] planet_type = 3 -> "glitter_planet_color"
      [] OTHER           -> "heart_planet_color"

\* match uniforms.planet_type: the colour function chosen
planet_color_fn(planet_type) ==
    CASE planet_type = 0 -> "rocky_planet_color"
      [] planet_type = 1 -> "gas_giant_color"
      [] planet_type = 2 -> "rainbow_planet_color"
      [] planet_type = 3 -> "glitter_planet_color"
      [] planet_type = 4 -> "heart_planet_color"
      [] OTHER           -> "rocky_planet_color"

planet_color(fn, world_pos, time) ==
    CASE fn = "rocky_planet_color"   -> rocky_planet_color(world_pos, time)
      [] fn = "gas_giant_color"      -> gas_giant_color(world_pos, time)
      [] fn = "rainbow_planet_color" -> rainbow_planet_color(world_pos, time)
      [] fn = "glitter_planet_color" -> glitter_planet_color(world_pos, time)
      [] fn = "heart_planet_color"   -> heart_planet_color(world_pos, time)

\* everything fragment_shader computes, lines 422-474
fragment_stages(fragment, u) ==
    Let(fragment.world_position, LAMBDA world_pos :
    Let(fragment_normal(world_pos), LAMBDA normal :
    Let(fragment_light(Vec3(One, One, One)), LAMBDA light_dir :
    Let(simulate_lighting(normal, light_dir), LAMBDA light_intensity :
    Let(planet_color_fn(u.planet_type), LAMBDA fn :
    Let(planet_color(fn, world_pos, u.time), LAMBDA base_color :
        [normal |-> normal,
         light_dir |-> light_dir,
         light_intensity |-> light_intensity,
         color_fn |-> fn,
         base_color |-> base_color,
         result |-> Scale3(base_color, light_intensity)]))))))

fragment_shader(fragment, u) == fragment_stages(fragment, u).result

\* the storm and band values the colour functions compute on the way
color_stages(world_pos, time) ==
    Let(rotate_planet_position(world_pos, time, 500), LAMBDA gas_pos :
    Let(storm_noise_of(gas_pos, time), LAMBDA storm_noise :
    Let(rainbow_bands_of(rotate_planet_position(world_pos, time, 400), time),
        LAMBDA rainbow_bands :
        [rotated_y |-> gas_pos.y,
         clouds |-> gas_giant_clouds(gas_pos, time),
         storm_noise |-> storm_noise,
         storm_applies |-> storm_applies(storm_noise, gas_pos),
         storm_strength |-> storm_strength_of(storm_noise),
         rainbow_bands |-> rainbow_bands,
         hue |-> rainbow_hue(rainbow_bands)])))

----------------------------------------------------------------------------
(* Vertex pipeline *)

\* crate::matrix::multiply_matrix_vector4: rows of the matrix times the
\* column vector
multiply_matrix_vector4(matrix, vector) ==
    Strict2(LAMBDA m, v :
                LET row(i) == Mul(m[i][1], v.x) + Mul(m[i][2], v.y)
                              + Mul(m[i][3], v.z) + Mul(m[i][4], v.w)
                IN  Vec4(row(1), row(2), row(3), row(4)),
            matrix, vector)

\* lines 22-29: the ring position
ring_position(p) ==
    Strict2(LAMBDA angle, radius :
                Vec4(Mul(radius, Cos(angle)), Mul(p.y, 100),
                     Mul(radius, Sin(angle)), One),
            Mul(p.x + p.z, 3000), 1500 + Mul(p.y, 100))

\* lines 30-45: the moon position
moon_position(p, time) ==
    Let(Mul(time, 500), LAMBDA moon_orbit_time :
    Let(Vec3(Mul(3000, Cos(moon_orbit_time)),
             Mul(Sin(Mul(moon_orbit_time, 2000)), 500),
             Mul(3000, Sin(moon_orbit_time))), LAMBDA moon_base :
        Vec4(moon_base.x + Mul(p.x, 300), moon_base.y + Mul(p.y, 300),
             moon_base.z + Mul(p.z, 300), One)))

\* lines 13-47: the homogeneous position, remapped for rings and moon
remap_position(vertex, u) ==
    IF u.render_type = 1 THEN ring_position(vertex.position)
    ELSE IF u.render_type = 2 THEN moon_position(vertex.position, u.time)
    ELSE Vec4(vertex.position.x, vertex.position.y, vertex.position.z, One)

\* the guard written as w > 0: a negative w is passed through undivided
perspective_divide_positive_w(clip_position) ==
    IF clip_position.w > 0
    THEN Vec3(Div(clip_position.x, clip_position.w),
              Div(clip_position.y, clip_position.w),
              Div(clip_position.z, clip_position.w))
    ELSE Vec3(clip_position.x, clip_position.y, clip_position.z)

\* lines 59-67: perspective division
perspective_divide(clip_position) ==
    IF clip_position.w # 0
    THEN Vec3(Div(clip_position.x, clip_position.w),
              Div(clip_position.y, clip_position.w),
              Div(clip_position.z, clip_position.w))
    ELSE Vec3(clip_position.x, clip_position.y, clip_position.z)

\* line 70: Vector4::new(ndc.x, ndc.y, ndc.z, 1.0)
lift_ndc(ndc) == Vec4(ndc.x, ndc.y, ndc.z, One)

\* Vector3::length on a vector that may hold NaN
FLength3(v) ==
    IF v.x = NaN \/ v.y = NaN \/ v.z = NaN THEN NaN ELSE Length3(v)

transform_normal(normal, model_matrix) ==
    Let(multiply_matrix_vector4(model_matrix,
                                Vec4(normal.x, normal.y, normal.z, 0)),
        LAMBDA t :
    Let(Vec3(t.x, t.y, t.z), LAMBDA n0 :
    Let([n0 EXCEPT !.x = FDiv(n0.x, FLength3(n0))], LAMBDA n1 :
    Let([n1 EXCEPT !.y = FDiv(n1.y, FLength3(n1))], LAMBDA n2 :
        [n2 EXCEPT !.z = FDiv(n2.z, FLength3(n2))]))))

\* the intermediate values of vertex_shader, lines 13-77
vertex_stages(vertex, u) ==
    Let(remap_position(vertex, u), LAMBDA position_vec4 :
    Let(multiply_matrix_vector4(u.model_matrix, position_vec4),
        LAMBDA world_position :
    Let(multiply_matrix_vector4(u.view_matrix, world_position),
        LAMBDA view_position :
    Let(multiply_matrix_vector4(u.projection_matrix, view_position),
        LAMBDA clip_position :
    Let(perspective_divide(clip_position), LAMBDA ndc :
    Let(lift_ndc(ndc), LAMBDA ndc_vec4 :
        [position_vec4 |-> position_vec4,
         clip_position |-> clip_position,
         ndc |-> ndc,
         ndc_vec4 |-> ndc_vec4,
         screen_position |->
             multiply_matrix_vector4(u.viewport_matrix, ndc_vec4)]))))))

\* the transformed values written over position and normal
make_vertex_overwriting(vertex, transformed_position, transformed_normal) ==
    [position |-> transformed_position,
     normal |-> transformed_normal,
     tex_coords |-> vertex.tex_coords,
     color |-> vertex.color,
     transformed_position |-> transformed_position,
     transformed_normal |-> transformed_normal]

\* lines 80-87: the Vertex returned
make_vertex(vertex, transformed_position, transformed_normal) ==
    [position |-> vertex.position,
     normal |-> vertex.normal,
     tex_coords |-> vertex.tex_coords,
     color |-> vertex.color,
     transformed_position |-> transformed_position,
     transformed_normal |-> transformed_normal]

vertex_shader(vertex, u) ==
    Let(vertex_stages(vertex, u).screen_position, LAMBDA screen_position :
        make_vertex(vertex,
            Vec3(screen_position.x, screen_position.y, screen_position.z),
            transform_normal(vertex.normal, u.model_matrix)))

----------------------------------------------------------------------------
(* Inputs *)

MaxVerts == 7       \* longest vertex list handed to an orchestrator
MaxFrags == 2       \* most fragments the rasterizer returns for a triangle

Row(a, b, c, d) == <<a, b, c, d>>

Identity ==
    <<Row(One, 0, 0, 0), Row(0, One, 0, 0), Row(0, 0, One, 0), Row(0, 0, 0, One)>>

\* scales x and y by 2, flattens z, moves by (1, 0, 0)
Flatten ==
    <<Row(2000, 0, 0, One), Row(0, 2000, 0, 0), Row(0, 0, 0, 0), Row(0, 0, 0, One)>>

\* the camera two units back
Back ==
    <<Row(One, 0, 0, 0), Row(0, One, 0, 0), Row(0, 0, One, -2000), Row(0, 0, 0, One)>>

\* w = -z
Perspective ==
    <<Row(One, 0, 0, 0), Row(0, One, 0, 0), Row(0, 0, -One, -200), Row(0, 0, -One, 0)>>

\* a 100 x 100 screen
Screen ==
    <<Row(50000, 0, 0, 50000), Row(0, -50000, 0, 50000), Row(0, 0, One, 0),
      Row(0, 0, 0, One)>>

MakeUniforms(model, view, projection, viewport, time, render_type, planet_type) ==
    [model_matrix |-> model, view_matrix |-> view,
     projection_matrix |-> projection, viewport_matrix |-> viewport,
     time |-> time, render_type |-> render_type, planet_type |-> planet_type]

Times == {0, 1000, 2500}
RenderTypes == {0, 1, 2, 3}
PlanetTypes == {-1, 0, 1, 2, 3, 4, 5, 9}

MakeVertex(position, normal) ==
    [position |-> position, normal |-> normal,
     tex_coords |-> [x |-> 250, y |-> 750],
     color |-> Vec3(One, 500, 0),
     transformed_position |-> Vec3(0, 0, 0),
     transformed_normal |-> Vec3(0, 0, 0)]

Vertices ==
    {MakeVertex(Vec3(0, 0, 0), Vec3(0, 0, One)),
     MakeVertex(Vec3(One, 0, 0), Vec3(3000, 4000, 0)),
     MakeVertex(Vec3(0, One, 0), Vec3(0, 0, 0)),
     MakeVertex(Vec3(500, -500, 2000), Vec3(0, One, 0)),
     MakeVertex(Vec3(-One, 300, -2000), Vec3(One, One, One))}

VertexUniforms ==
    {MakeUniforms(m, v, p, vp, t, rt, 0) :
        m \in {Identity, Flatten}, v \in {Identity, Back},
        p \in {Identity, Perspective}, vp \in {Identity, Screen},
        t \in Times, rt \in RenderTypes}

MakeFragment(x, y, depth, world_position) ==
    [position |-> [x |-> x, y |-> y], depth |-> depth,
     world_position |-> world_position]

WorldPositions ==
    {Vec3(x, y, z) : x \in {-One, -500, 0, 500, One}, y \in {-One, 0, 200, One},
                     z \in {-One, 0, 500, One}}

ShadedFragments == {MakeFragment(10500, 20250, 500, p) : p \in WorldPositions}

FragmentUniforms ==
    {MakeUniforms(Identity, Identity, Identity, Identity, t, 0, pt) :
        t \in Times, pt \in PlanetTypes}

LightVectors ==
    {Vec3(0, 0, 0), Vec3(One, One, One), Vec3(0, 0, One), Vec3(0, -3000, 0),
     Vec3(577, 577, 577), Vec3(-2000, 1000, 500), Vec3(1, 0, 0)}

NormalVectors ==
    {Vec3(x, y, z) : x \in {-2000, 0, 600}, y \in {0, 800, 5000}, z \in {-One, 0, One}}

\* the vertex list of an overlay mesh: vertex i of n, all distinct
MeshVertex(i) ==
    MakeVertex(Vec3(100 * i, 500 - 100 * i, 50 * i),
               Vec3(0, (i % 2) * One, ((i + 1) % 2) * One))
Mesh(n) == [i \in 1..n |-> MeshVertex(i)]

RenderUniforms ==
    {MakeUniforms(Identity, Back, Perspective, Screen, 1000, 0, 2),
     MakeUniforms(Flatten, Identity, Identity, Identity, 0, 2, 7),
     MakeUniforms(Identity, Identity, Identity, Screen, 2500, 1, 0)}

TheLight == [position |-> Vec3(5000, 5000, 5000)]

\* what the rasterizer may return for one triangle
RasterFragments ==
    {MakeFragment(10500, 20250, 500, Vec3(One, 0, 0)),
     MakeFragment(-1500, 3999, -250, Vec3(0, 0, 0))}

RECURSIVE SeqsUpTo(_, _)
SeqsUpTo(S, n) ==
    IF n = 0 THEN {<<>>}
    ELSE LET shorter == SeqsUpTo(S, n - 1)
         IN  shorter \cup {Append(q, e) : q \in shorter, e \in S}

RasterOutputs == SeqsUpTo(RasterFragments, MaxFrags)

----------------------------------------------------------------------------
(* State machine *)

NoCall == [fn |-> "none"]
NoUniforms == MakeUniforms(Identity, Identity, Identity, Identity, 0, 0, 0)

Init ==
    /\ call = NoCall
    /\ pc = "idle"
    /\ uniforms = NoUniforms
    /\ overlay_uniforms = NoUniforms
    /\ transformed_vertices = <<>>
    /\ triangles = <<>>
    /\ fragments = <<>>
    /\ next_index = 0
    /\ framebuffer = <<>>
    /\ log = <<>>

Idle == call = NoCall /\ pc = "idle"

render_locals ==
    <<pc, overlay_uniforms, transformed_vertices, triangles, fragments,
      next_index, framebuffer, log>>

\* a caller invokes vertex_shader(&vertex, &uniforms)
VertexShader ==
    \E v \in Vertices, u \in VertexUniforms :
        /\ Idle
        /\ uniforms' = u
        /\ call' = [fn |-> "vertex_shader", vertex |-> v, uniforms |-> u,
                    stages |-> vertex_stages(v, u),
                    result |-> vertex_shader(v, u)]
        /\ UNCHANGED render_locals

\* a caller invokes fragment_shader(&fragment, &uniforms)
FragmentShader ==
    \E f \in ShadedFragments, u \in FragmentUniforms :
        /\ Idle
        /\ uniforms' = u
        /\ call' = [fn |-> "fragment_shader", fragment |-> f, uniforms |-> u,
                    stages |-> fragment_stages(f, u),
                    colors |-> color_stages(f.world_position, u.time),
                    result |-> fragment_shader(f, u)]
        /\ UNCHANGED render_locals

\* simulate_lighting(&normal, &light_dir) on its own
SimulateLighting ==
    \E n \in NormalVectors, l \in LightVectors :
        /\ Idle
        /\ call' = [fn |-> "simulate_lighting", normal |-> n, light_dir |-> l,
                    result |-> simulate_lighting(n, l)]
        /\ UNCHANGED <<uniforms, render_locals>>

\* lines 479-480 / 516-517: the clone with its render_type set
overlay_copy(u, render_type) == [u EXCEPT !.render_type = render_type]

overlay_render_type(fn) == IF fn = "render_rings" THEN 1 ELSE 2

\* ring_color / moon_color
overlay_color(fn) ==
    IF fn = "render_rings" THEN Vec3(800, 700, 600) ELSE Vec3(900, 900, 800)

\* render_type written into the caller's Uniforms instead of into a clone
RenderCallInPlace(fn) ==
    \E u \in RenderUniforms, n \in 0..MaxVerts :
        /\ Idle
        /\ uniforms' = overlay_copy(u, overlay_render_type(fn))
        /\ call' = [fn |-> fn, uniforms |-> u, vertex_array |-> Mesh(n),
                    light |-> TheLight]
        /\ overlay_uniforms' = overlay_copy(u, overlay_render_type(fn))
        /\ pc' = "transform"
        /\ next_index' = 0
        /\ UNCHANGED <<transformed_vertices, triangles, fragments, framebuffer,
                       log>>

\* lines 478-480 / 515-517: the call and the clone of the uniforms
RenderCall(fn) ==
    \E u \in RenderUniforms, n \in 0..MaxVerts :
        /\ Idle
        /\ uniforms' = u
        /\ call' = [fn |-> fn, uniforms |-> u, vertex_array |-> Mesh(n),
                    light |-> TheLight]
        /\ overlay_uniforms' = overlay_copy(u, overlay_render_type(fn))
        /\ pc' = "transform"
        /\ next_index' = 0
        /\ UNCHANGED <<transformed_vertices, triangles, fragments, framebuffer,
                       log>>

RenderRings == RenderCall("render_rings")
RenderMoon == RenderCall("render_moon")

\* lines 483-486: one turn of the first loop
TransformVertex ==
    /\ pc = "transform"
    /\ next_index < Len(call.vertex_array)
    /\ LET vertex == call.vertex_array[next_index + 1]
       IN  /\ transformed_vertices' =
                 Append(transformed_vertices,
                        vertex_shader(vertex, overlay_uniforms))
           /\ log' = Append(log, [op |-> "vertex_shader", vertex |-> vertex,
                                  uniforms |-> overlay_uniforms])
    /\ next_index' = next_index + 1
    /\ UNCHANGED <<call, pc, overlay_uniforms, triangles, fragments,
                   framebuffer, uniforms>>

TransformDone ==
    /\ pc = "transform"
    /\ next_index >= Len(call.vertex_array)
    /\ pc' = "assemble"
    /\ next_index' = 0
    /\ UNCHANGED <<call, overlay_uniforms, transformed_vertices, triangles,
                   fragments, framebuffer, uniforms, log>>

\* .step_by(3)
next_triangle_index(i) == i + 3

\* the bound taken one too far: the last full triple is left out
triangle_fits_short(i, len) == i + 3 < len

\* if i + 2 < transformed_vertices.len()
triangle_fits(i, len) == i + 2 < len

\* [tv[i].clone(), tv[i + 1].clone(), tv[i + 2].clone()], indices from 0
triangle_at(tv, i) == <<tv[i + 1], tv[i + 2], tv[i + 3]>>

\* lines 489-497: one turn of the second loop; an index past the end panics
AssembleTriangle ==
    /\ pc = "assemble"
    /\ next_index < Len(transformed_vertices)
    /\ IF ~triangle_fits(next_index, Len(transformed_vertices))
       THEN UNCHANGED <<pc, triangles>>
       ELSE IF next_index + 3 <= Len(transformed_vertices)
       THEN /\ triangles' =
                 Append(triangles, triangle_at(transformed_vertices, next_index))
            /\ UNCHANGED pc
       ELSE /\ pc' = "panic"
            /\ UNCHANGED triangles
    /\ next_index' = next_triangle_index(next_index)
    /\ UNCHANGED <<call, overlay_uniforms, transformed_vertices, fragments,
                   framebuffer, uniforms, log>>

AssembleDone ==
    /\ pc = "assemble"
    /\ next_index >= Len(transformed_vertices)
    /\ pc' = "rasterize"
    /\ next_index' = 0
    /\ UNCHANGED <<call, overlay_uniforms, transformed_vertices, triangles,
                   fragments, framebuffer, uniforms, log>>

\* lines 500-502: one turn of the third loop; the rasterizer is a
\* collaborator and returns any sequence of fragments
RasterizeTriangle ==
    /\ pc = "rasterize"
    /\ next_index < Len(triangles)
    /\ \E returned \in RasterOutputs :
        /\ fragments' = fragments \o returned
        /\ log' = Append(log, [op |-> "triangle",
                               tri |-> triangles[next_index + 1],
                               light |-> call.light,
                               returned |-> returned])
    /\ next_index' = next_index + 1
    /\ UNCHANGED <<call, pc, overlay_uniforms, transformed_vertices, triangles,
                   framebuffer, uniforms>>

RasterizeDone ==
    /\ pc = "rasterize"
    /\ next_index >= Len(triangles)
    /\ pc' = "write"
    /\ next_index' = 0
    /\ UNCHANGED <<call, overlay_uniforms, transformed_vertices, triangles,
                   fragments, framebuffer, uniforms, log>>

\* the arguments of framebuffer.point(..) for one fragment
point_write(fragment, color) ==
    [x |-> AsI32(fragment.position.x), y |-> AsI32(fragment.position.y),
     color |-> color, depth |-> fragment.depth]

\* the overlay shaded like the planet: fragment_shader called per fragment
write_calls_shaded(fn, fragment) ==
    <<[op |-> "fragment_shader", fragment |-> fragment],
      [op |-> "point", fragment |-> fragment,
       args |-> point_write(fragment, fragment_shader(fragment, uniforms))]>>

\* the collaborator calls made for one fragment, lines 505-511
write_calls(fn, fragment) ==
    <<[op |-> "point", fragment |-> fragment,
       args |-> point_write(fragment, overlay_color(fn))]>>

PointsOf(calls) == SelectSeq(calls, LAMBDA c : c.op = "point")

RECURSIVE ArgsOf(_)
ArgsOf(calls) ==
    IF calls = <<>> THEN <<>> ELSE <<Head(calls).args>> \o ArgsOf(Tail(calls))

\* the last loop walking the fragments from the end
WritePointReversed ==
    /\ pc = "write"
    /\ next_index < Len(fragments)
    /\ LET calls == write_calls(call.fn, fragments[Len(fragments) - next_index])
       IN  /\ log' = log \o calls
           /\ framebuffer' = framebuffer \o ArgsOf(PointsOf(calls))
    /\ next_index' = next_index + 1
    /\ UNCHANGED <<call, pc, overlay_uniforms, transformed_vertices, triangles,
                   fragments, uniforms>>

\* lines 504-512: one turn of the last loop
WritePoint ==
    /\ pc = "write"
    /\ next_index < Len(fragments)
    /\ LET calls == write_calls(call.fn, fragments[next_index + 1])
       IN  /\ log' = log \o calls
           /\ framebuffer' = framebuffer \o ArgsOf(PointsOf(calls))
    /\ next_index' = next_index + 1
    /\ UNCHANGED <<call, pc, overlay_uniforms, transformed_vertices, triangles,
                   fragments, uniforms>>

WriteDone ==
    /\ pc = "write"
    /\ next_index >= Len(fragments)
    /\ pc' = "done"
    /\ UNCHANGED <<call, overlay_uniforms, transformed_vertices, triangles,
                   fragments, next_index, framebuffer, uniforms, log>>

\* the call has returned; the caller goes on to its next call
Release ==
    /\ call # NoCall
    /\ pc \in {"idle", "done"}
    /\ call' = NoCall
    /\ pc' = "idle"
    /\ uniforms' = NoUniforms
    /\ overlay_uniforms' = NoUniforms
    /\ transformed_vertices' = <<>>
    /\ triangles' = <<>>
    /\ fragments' = <<>>
    /\ next_index' = 0
    /\ framebuffer' = <<>>
    /\ log' = <<>>

Next ==
    \/ VertexShader
    \/ FragmentShader
    \/ SimulateLighting
    \/ RenderRings
    \/ RenderMoon
    \/ TransformVertex
    \/ TransformDone
    \/ AssembleTriangle
    \/ AssembleDone
    \/ RasterizeTriangle
    \/ RasterizeDone
    \/ WritePoint
    \/ WriteDone
    \/ Release

Spec == Init /\ [][Next]_vars

\* one step of the body of render_rings / render_moon
RenderStep ==
    \/ TransformVertex
    \/ TransformDone
    \/ AssembleTriangle
    \/ AssembleDone
    \/ RasterizeTriangle
    \/ RasterizeDone
    \/ WritePoint
    \/ WriteDone

\* The body of an orchestrator is sequential code on one thread: once called
\* it keeps taking its next step while it has one.
FairSpec == Spec /\ WF_vars(RenderStep)

----------------------------------------------------------------------------
(* Properties of the overlay orchestrators *)

Rendering == call.fn \in {"render_rings", "render_moon"}

CallsTo(op) == SelectSeq(log, LAMBDA c : c.op = op)

\* C1: while and after render_rings / render_moon runs, the caller's
\* Uniforms holds the value it was called with; the local copy differs from
\* it in render_type only (1 for rings, 2 for the moon); and every
\* vertex_shader call received that copy.
C1_BaseUniformsUnaffected ==
    Rendering =>
        /\ uniforms = call.uniforms
        /\ overlay_uniforms.render_type = (IF call.fn = "render_rings" THEN 1 ELSE 2)
        /\ \A field \in DOMAIN call.uniforms \ {"render_type"} :
               overlay_uniforms[field] = call.uniforms[field]
        /\ \A i \in 1..Len(log) :
               log[i].op = "vertex_shader" => log[i].uniforms = overlay_uniforms

\* C1 witness: render_rings has returned after transforming three or more
\* vertices for a caller whose render_type was not 1.
C1_Witness ==
    /\ call.fn = "render_rings"
    /\ pc = "done"
    /\ call.uniforms.render_type # 1
    /\ Len(CallsTo("vertex_shader")) >= 3

Assembled == Rendering /\ pc \in {"rasterize", "write", "done"}

\* the places (k, j) at which transformed vertex i sits in a triangle
PlacesOf(i) ==
    {<<k, j>> \in (1..Len(triangles)) \X (1..3) :
        triangles[k][j] = transformed_vertices[i]}

\* C2: a vertex list of length n gives floor(n/3) triangles; the k-th is
\* made of the transformed vertices 3k, 3k+1, 3k+2 (from 0) in that order,
\* every vertex of the first 3*floor(n/3) sits in exactly one triangle and
\* the trailing n mod 3 in none; the rasterizer receives exactly those
\* triangles in order; and no index is ever out of range.
C2_ConsecutiveTriples ==
    /\ pc # "panic"
    /\ Assembled =>
        LET n == Len(call.vertex_array)
        IN  /\ Len(transformed_vertices) = n
            /\ \A i \in 1..n :
                   transformed_vertices[i]
                       = vertex_shader(call.vertex_array[i], overlay_uniforms)
            /\ Len(triangles) = n \div 3
            /\ \A k \in 0..(Len(triangles) - 1) :
                   triangles[k + 1] = <<transformed_vertices[3 * k + 1],
                                        transformed_vertices[3 * k + 2],
                                        transformed_vertices[3 * k + 3]>>
            /\ \A i \in 1..n :
                   Cardinality(PlacesOf(i)) = (IF i <= 3 * (n \div 3) THEN 1 ELSE 0)
            /\ pc \in {"write", "done"} =>
                   /\ Len(CallsTo("triangle")) = n \div 3
                   /\ \A k \in 1..(n \div 3) :
                          CallsTo("triangle")[k].tri = triangles[k]

\* C2 witness: seven vertices were rendered: two triangles, one vertex left.
C2_Witness ==
    /\ Rendering
    /\ pc = "done"
    /\ Len(call.vertex_array) = 7
    /\ Len(triangles) = 2
    /\ PlacesOf(7) = {}

\* k is a truncated toward zero
TruncatesTo(k, a) ==
    IF a >= 0 THEN k * One <= a /\ a < (k + 1) * One
    ELSE (k - 1) * One < a /\ a <= k * One

RECURSIVE Flatten1(_)
Flatten1(seqs) ==
    IF seqs = <<>> THEN <<>> ELSE Head(seqs) \o Flatten1(Tail(seqs))

ReturnedOf(calls) == [i \in 1..Len(calls) |-> calls[i].returned]

\* C3: the fragments are exactly those the rasterizer returned; each one
\* processed so far caused exactly one point write, at its position
\* truncated to integers, with its depth and with the fixed overlay colour
\* (0.8, 0.7, 0.6) for rings, (0.9, 0.9, 0.8) for the moon; there is no other
\* write and fragment_shader is never called.
C3_FixedColourWrites ==
    Rendering =>
        /\ CallsTo("fragment_shader") = <<>>
        /\ Len(CallsTo("point")) = Len(framebuffer)
        /\ pc \in {"idle", "transform", "assemble", "rasterize"} =>
               framebuffer = <<>>
        /\ pc \in {"write", "done"} =>
               /\ fragments = Flatten1(ReturnedOf(CallsTo("triangle")))
               /\ Len(framebuffer) = (IF pc = "done" THEN Len(fragments) ELSE next_index)
               /\ \A i \in 1..Len(framebuffer) :
                      /\ TruncatesTo(framebuffer[i].x, fragments[i].position.x)
                      /\ TruncatesTo(framebuffer[i].y, fragments[i].position.y)
                      /\ framebuffer[i].depth = fragments[i].depth
                      /\ framebuffer[i].color =
                             (IF call.fn = "render_rings"
                              THEN Vec3(800, 700, 600) ELSE Vec3(900, 900, 800))

\* C3 witness: render_moon has returned after writing two or more
\* fragments, one of them at a negative, fractional position; the caller's
\* planet_type was not 0.
C3_Witness ==
    /\ call.fn = "render_moon"
    /\ pc = "done"
    /\ call.uniforms.planet_type # 0
    /\ Len(framebuffer) >= 2
    /\ \E i \in 1..Len(framebuffer) :
           fragments[i].position.x = -1500 /\ framebuffer[i].x = -1

----------------------------------------------------------------------------
(* Properties of the shaders *)

Shading == call.fn = "fragment_shader"
Transforming == call.fn = "vertex_shader"

\* the colour function the planet_type stands for, 0 .. 4
VariantOf(planet_type) ==
    <<"rocky_planet_color", "gas_giant_color", "rainbow_planet_color",
      "glitter_planet_color", "heart_planet_color">>[planet_type + 1]

\* C4: fragment_shader takes its colour from the function of the
\* planet_type (0 rocky, 1 gas giant, 2 rainbow, 3 glitter, 4 heart); for a
\* planet_type outside 0..4 its result is the result for planet_type 0 on
\* the same fragment and time.
C4_PlanetTypeDispatch ==
    Shading =>
        LET pt == call.uniforms.planet_type
            pos == call.fragment.world_position
            time == call.uniforms.time
        IN  /\ pt \in 0..4 =>
                /\ call.stages.color_fn = VariantOf(pt)
                /\ call.stages.base_color = planet_color(VariantOf(pt), pos, time)
            /\ pt \notin 0..4 =>
                /\ call.stages.base_color = rocky_planet_color(pos, time)
                /\ call.result =
                       fragment_shader(call.fragment,
                                       [call.uniforms EXCEPT !.planet_type = 0])
            /\ call.result = Scale3(call.stages.base_color,
                                    call.stages.light_intensity)

\* C4 witness: fragment_shader returned for a negative planet_type on a
\* fragment where the five colour functions give five different colours.
C4_Witness ==
    /\ Shading
    /\ call.uniforms.planet_type < 0
    /\ LET pos == call.fragment.world_position
           time == call.uniforms.time
       IN  Cardinality({planet_color(VariantOf(pt), pos, time) : pt \in 0..4}) = 5

HasNaN(v) == v.x = NaN \/ v.y = NaN \/ v.z = NaN

\* |v| = 1 within the rounding of the arithmetic
UnitLength(v) == Abs(Length3(v) - One) <= 3

\* C5 (as claimed): normalising a zero-length vector gives a fixed fallback
\* and never NaN: the fragment normal of world position (0,0,0) is (0,0,1),
\* a zero light direction becomes (1,0,0), the transformed_normal of a normal
\* the model matrix maps to zero has no NaN component; a non-zero vector is
\* normalised to length 1.
C5_NormalisationFallback ==
    /\ fragment_light(Vec3(0, 0, 0)) = Vec3(One, 0, 0)
    /\ Shading =>
        /\ call.fragment.world_position = Vec3(0, 0, 0)
               => call.stages.normal = Vec3(0, 0, One)
        /\ call.fragment.world_position # Vec3(0, 0, 0)
               => UnitLength(call.stages.normal)
        /\ UnitLength(call.stages.light_dir)
    /\ Transforming =>
        LET n == call.vertex.normal
            t == multiply_matrix_vector4(call.uniforms.model_matrix,
                                         Vec4(n.x, n.y, n.z, 0))
        IN  /\ ~HasNaN(call.result.transformed_normal)
            /\ Vec3(t.x, t.y, t.z) # Vec3(0, 0, 0)
                   => UnitLength(call.result.transformed_normal)

\* C6: when the clip-space w is 0 the NDC coordinates are the clip x, y, z
\* unchanged; otherwise each is divided by w; either way the NDC vector goes
\* into the viewport multiply with w = 1.
C6_PerspectiveDivide ==
    Transforming =>
        LET clip == call.stages.clip_position
            ndc == call.stages.ndc
            screen == multiply_matrix_vector4(call.uniforms.viewport_matrix,
                                              Vec4(ndc.x, ndc.y, ndc.z, One))
        IN  /\ clip.w = 0 => ndc = Vec3(clip.x, clip.y, clip.z)
            /\ clip.w # 0 => ndc = Vec3(Div(clip.x, clip.w), Div(clip.y, clip.w),
                                        Div(clip.z, clip.w))
            /\ call.stages.ndc_vec4 = Vec4(ndc.x, ndc.y, ndc.z, One)
            /\ call.result.transformed_position
                   = Vec3(screen.x, screen.y, screen.z)

\* C6 witness: vertex_shader returned for a vertex whose clip-space w is 0
\* and whose clip-space x is not.
C6_Witness ==
    /\ Transforming
    /\ call.stages.clip_position.w = 0
    /\ call.stages.clip_position.x # 0
    /\ call.stages.ndc.x = call.stages.clip_position.x

\* clamp(dot(normal, normalized light), 0, 1) * 0.8 + 0.2
LambertOf(normal, light_dir) ==
    LET len == Length3(light_dir)
        unit == IF len > 0 THEN Divide3(light_dir, len) ELSE light_dir
        dot == Dot3(normal, unit)
        clamped == IF dot < 0 THEN 0 ELSE IF dot > One THEN One ELSE dot
    IN  Mul(clamped, 800) + 200

\* C7: simulate_lighting returns a value in [0.2, 1.0], equal to
\* clamp(dot(normal, normalized light), 0, 1) * 0.8 + 0.2, also for a normal
\* that is not of unit length and for a zero light direction.
C7_LightingRange ==
    /\ call.fn = "simulate_lighting" =>
        /\ call.result >= 200
        /\ call.result <= One
        /\ call.result = LambertOf(call.normal, call.light_dir)
    /\ Shading =>
        /\ call.stages.light_intensity >= 200
        /\ call.stages.light_intensity <= One

\* C7 witness: simulate_lighting returned 1.0 for a normal longer than 1
\* whose dot product with the normalised light exceeds 1.
C7_Witness ==
    /\ call.fn = "simulate_lighting"
    /\ Length3(call.normal) > One
    /\ Dot3(call.normal, Divide3(call.light_dir, Max(Length3(call.light_dir), 1)))
           > One
    /\ call.result = One

\* C8: the vertex vertex_shader returns has the position, normal,
\* tex_coords and color of its input, whatever the render_type; it is a
\* function of the vertex and the uniforms alone.
C8_InputFieldsPreserved ==
    /\ Transforming =>
        /\ call.result.position = call.vertex.position
        /\ call.result.normal = call.vertex.normal
        /\ call.result.tex_coords = call.vertex.tex_coords
        /\ call.result.color = call.vertex.color
        /\ call.result = vertex_shader(call.vertex, call.uniforms)
    /\ Rendering =>
        \A i \in 1..Len(transformed_vertices) :
            /\ transformed_vertices[i].position = call.vertex_array[i].position
            /\ transformed_vertices[i].normal = call.vertex_array[i].normal
            /\ transformed_vertices[i].tex_coords = call.vertex_array[i].tex_coords
            /\ transformed_vertices[i].color = call.vertex_array[i].color

\* C8 witness: vertex_shader returned for render_type 2 with a
\* transformed_position and a transformed_normal that differ from the
\* position and normal it kept.
C8_Witness ==
    /\ Transforming
    /\ call.uniforms.render_type = 2
    /\ call.result.transformed_position # call.result.position
    /\ call.result.transformed_normal # call.result.normal
    /\ call.result.position = call.vertex.position

\* the hue of a band value by its interval
HueOfBands(b) ==
    IF b < 1000 THEN Vec3(1000, 0, 0)
    ELSE IF b < 2000 THEN Vec3(1000, 500, 0)
    ELSE IF b < 3000 THEN Vec3(1000, 1000, 0)
    ELSE IF b < 4000 THEN Vec3(0, 1000, 0)
    ELSE IF b < 5000 THEN Vec3(0, 0, 1000)
    ELSE IF b < 6000 THEN Vec3(300, 0, 500)
    ELSE Vec3(500, 0, 500)

\* C9: in rainbow_planet_color rainbow_bands lies in [0, 6]; the hue is
\* red, orange, yellow, green, blue, indigo for [0,1), [1,2), .. [5,6), and
\* violet (0.5, 0, 0.5) exactly when rainbow_bands is 6.0.
C9_RainbowBands ==
    (Shading /\ call.uniforms.planet_type = 2) =>
        /\ call.colors.rainbow_bands >= 0
        /\ call.colors.rainbow_bands <= 6000
        /\ call.colors.hue = HueOfBands(call.colors.rainbow_bands)
        /\ call.colors.hue = Vec3(500, 0, 500)
               <=> call.colors.rainbow_bands = 6000

\* C9 witness: a rainbow fragment whose rainbow_bands is exactly 6.0 and
\* whose hue is the violet default.
C9_Witness ==
    /\ Shading
    /\ call.uniforms.planet_type = 2
    /\ call.colors.rainbow_bands = 6000
    /\ call.colors.hue = Vec3(500, 0, 500)

Between(v, a, b) == Min(a, b) <= v /\ v <= Max(a, b)

\* C10 (as claimed): in gas_giant_color the storm applies exactly when the
\* storm sample exceeds 0.8 and |rotated y| < 0.3; its strength then lies in
\* (0, 1], so the colour is a convex combination of the cloud colour and the
\* storm colour (0.9, 0.5, 0.8); otherwise the cloud colour is kept.
C10_StormStrengthWithinUnit ==
    (Shading /\ call.uniforms.planet_type = 1) =>
        LET c == call.colors
            final == call.stages.base_color
        IN  /\ c.storm_applies <=> (c.storm_noise > 800 /\ Abs(c.rotated_y) < 300)
            /\ ~c.storm_applies => final = c.clouds
            /\ c.storm_applies =>
                /\ c.storm_strength > 0
                /\ c.storm_strength <= One
                /\ Between(final.x, c.clouds.x, 900)
                /\ Between(final.y, c.clouds.y, 500)
                /\ Between(final.z, c.clouds.z, 800)

----------------------------------------------------------------------------
(* The phases of the overlay orchestrators *)

\* the state-level part of C11: the collaborator calls made so far are the
\* vertex_shader calls, then the rasterizer calls, then the point writes
C11_CallOrder ==
    Rendering =>
        LET vs == CallsTo("vertex_shader")
            ts == CallsTo("triangle")
            ps == CallsTo("point")
            n == Len(call.vertex_array)
            returned == Flatten1(ReturnedOf(ts))
        IN  /\ log = vs \o ts \o ps
            /\ Len(vs) <= n
            /\ \A i \in 1..Len(vs) : vs[i].vertex = call.vertex_array[i]
            /\ ts # <<>> => Len(vs) = n
            /\ Len(ts) <= n \div 3
            /\ \A k \in 1..Len(ts) :
                   ts[k].tri = <<transformed_vertices[3 * k - 2],
                                 transformed_vertices[3 * k - 1],
                                 transformed_vertices[3 * k]>>
            /\ ps # <<>> => (Len(vs) = n /\ Len(ts) = n \div 3)
            /\ Len(ps) <= Len(returned)
            /\ \A i \in 1..Len(ps) : ps[i].fragment = returned[i]
            /\ framebuffer = ArgsOf(ps)
            /\ pc = "done" =>
                   /\ Len(vs) = n
                   /\ Len(ts) = n \div 3
                   /\ Len(framebuffer) = Len(returned)

\* C11: render_rings and render_moon run in three ordered phases: every
\* vertex is transformed, in input order, before the rasterizer is first
\* called; every triangle is rasterized, in triangle order, before the first
\* framebuffer write; the writes follow the triangles and, within one, the
\* order of the fragments returned; the writes are as many as the fragments
\* returned; and every call that has started returns.
C11_OrderedPhases ==
    /\ []C11_CallOrder
    /\ (Rendering /\ pc # "done") ~> (Rendering /\ pc = "done")

\* C11 witness: an orchestrator has returned after rasterizing two
\* triangles, the first of which returned two different fragments and the
\* second a different, non-empty sequence, and after writing them all.
C11_Witness ==
    /\ Rendering
    /\ pc = "done"
    /\ LET ts == CallsTo("triangle")
       IN  /\ Len(ts) = 2
           /\ Len(ts[1].returned) = 2
           /\ ts[1].returned[1] # ts[1].returned[2]
           /\ ts[2].returned # <<>>
           /\ ts[2].returned # ts[1].returned
           /\ Len(framebuffer) = Len(ts[1].returned) + Len(ts[2].returned)

=============================================================================
